---- MODULE Spec2Model ----
(***************************************************************************)
(* A model of the shopping-list parser (src/src): the unit model           *)
(* (unit.cpp), the line parser and the total-price rule                    *)
(* (shopping_list.cpp), the scanner primitives (utils.cpp), the batch      *)
(* reader (main.cpp) and the display conversions (display.cpp).            *)
(*                                                                         *)
(* Text is a sequence of bytes, each byte a one-character string; a        *)
(* std::string_view is a pair lo, hi of positions into the line it was     *)
(* taken from (the bytes lo..hi, empty when hi = lo - 1).                  *)
(*                                                                         *)
(* A C++ double is modelled as the IEEE-754 binary64 value it holds: a     *)
(* non-negative number m * 2^e with m an odd natural of at most 53 bits    *)
(* (or zero), and every arithmetic operation rounds its exact result to    *)
(* the nearest such value, ties to even.  Naturals wider than a TLC        *)
(* integer are sequences of 15-bit limbs, least significant first.         *)
(***************************************************************************)
EXTENDS Integers, Sequences, FiniteSets, TLC

VARIABLES
    pc,                 \* where main is: "read", "total", "done", "terminated"
    file,               \* the lines of the shopping list file
    lineNo,             \* the line readShoppingListFromFile reads next
    shoppingListItems,  \* the items parsed so far, then the returned list
    stderr,             \* the lines reported as failed, with the message
    itemNo,             \* the item main prices next
    itemTotals,         \* itemTotalPriceCents of the items priced so far
    totalPriceCents,    \* the running total of main
    curWeight,          \* a weight under conversion
    curUnit,         \* the unit curWeight is in
    conversions,        \* the weights and units curWeight was converted from
    enumTrace,          \* a CountType or Unit and what it was converted to
    displayCalls        \* the calls of the functions of display.cpp, with
                        \* their arguments and what they returned

progVars == <<pc, file, lineNo, shoppingListItems, stderr, itemNo, itemTotals,
              totalPriceCents>>
unitVars == <<curWeight, curUnit, conversions, enumTrace, displayCalls>>
vars == <<pc, file, lineNo, shoppingListItems, stderr, itemNo, itemTotals,
          totalPriceCents, curWeight, curUnit, conversions, enumTrace,
          displayCalls>>

(***************************************************************************)
(* Naturals of arbitrary width.                                            *)
(***************************************************************************)
LimbBits == 15
LimbBase == 32768
MantissaBits == 53

PowersOf2 == <<1, 2, 4, 8, 16, 32, 64, 128, 256, 512, 1024, 2048, 4096, 8192,
               16384, 32768>>

\* 2^n for n in 0..LimbBits
Pow2(n) == PowersOf2[n + 1]

RECURSIVE Pow10(_)
Pow10(n) == IF n = 0 THEN 1 ELSE 10 * Pow10(n - 1)

RECURSIVE BigFromInt(_)
BigFromInt(n) ==
    IF n = 0 THEN << >> ELSE <<n % LimbBase>> \o BigFromInt(n \div LimbBase)

RECURSIVE BigToInt(_)
BigToInt(b) ==
    IF b = << >> THEN 0 ELSE Head(b) + LimbBase * BigToInt(Tail(b))

RECURSIVE BigTrim(_)
BigTrim(b) ==
    IF b = << >> THEN b
    ELSE IF b[Len(b)] = 0 THEN BigTrim(SubSeq(b, 1, Len(b) - 1))
    ELSE b

BigLimb(b, i) == IF i >= 1 /\ i <= Len(b) THEN b[i] ELSE 0

BigCmp(a, b) ==
    IF Len(a) # Len(b) THEN (IF Len(a) < Len(b) THEN -1 ELSE 1)
    ELSE IF a = b THEN 0
    ELSE LET i == CHOOSE i \in 1..Len(a) :
                      a[i] # b[i] /\ \A j \in (i + 1)..Len(a) : a[j] = b[j]
         IN  IF a[i] < b[i] THEN -1 ELSE 1

RECURSIVE BigAddFrom(_, _, _, _)
BigAddFrom(a, b, i, carry) ==
    IF i > Len(a) /\ i > Len(b)
    THEN (IF carry = 0 THEN << >> ELSE <<carry>>)
    ELSE LET t == BigLimb(a, i) + BigLimb(b, i) + carry
         IN  <<t % LimbBase>> \o BigAddFrom(a, b, i + 1, t \div LimbBase)

BigAdd(a, b) == BigAddFrom(a, b, 1, 0)

RECURSIVE BigSubFrom(_, _, _, _)
BigSubFrom(a, b, i, borrow) ==
    IF i > Len(a) THEN << >>
    ELSE LET t == a[i] - BigLimb(b, i) - borrow
         IN  IF t < 0
             THEN <<t + LimbBase>> \o BigSubFrom(a, b, i + 1, 1)
             ELSE <<t>> \o BigSubFrom(a, b, i + 1, 0)

\* a - b for a >= b
BigSub(a, b) == BigTrim(BigSubFrom(a, b, 1, 0))

RECURSIVE BigMulLimbFrom(_, _, _, _)
BigMulLimbFrom(a, k, i, carry) ==
    IF i > Len(a) THEN (IF carry = 0 THEN << >> ELSE <<carry>>)
    ELSE LET t == a[i] * k + carry
         IN  <<t % LimbBase>> \o BigMulLimbFrom(a, k, i + 1, t \div LimbBase)

RECURSIVE BigMulFrom(_, _, _)
BigMulFrom(a, b, i) ==
    IF i > Len(b) THEN << >>
    ELSE BigAdd(SubSeq([j \in 1..(i - 1) |-> 0], 1, i - 1)
                    \o BigMulLimbFrom(a, b[i], 1, 0),
                BigMulFrom(a, b, i + 1))

BigMul(a, b) ==
    IF a = << >> \/ b = << >> THEN << >> ELSE BigTrim(BigMulFrom(a, b, 1))

\* a * 2^k
BigShl(a, k) ==
    LET q == k \div LimbBits
        r == k % LimbBits
        lowMod == Pow2(LimbBits - r)
        n == Len(a) + q + 1
    IN  BigTrim(SubSeq([i \in 1..n |->
                           (BigLimb(a, i - q) % lowMod) * Pow2(r)
                           + (BigLimb(a, i - q - 1) \div lowMod)], 1, n))

\* a \div 2^k
BigShr(a, k) ==
    LET q == k \div LimbBits
        r == k % LimbBits
        n == Len(a) - q
    IN  IF n <= 0 THEN << >>
        ELSE BigTrim(SubSeq([i \in 1..n |->
                               (BigLimb(a, i + q) \div Pow2(r))
                               + (BigLimb(a, i + q + 1) % Pow2(r))
                                 * Pow2(LimbBits - r)], 1, n))

\* the number of bits of a limb n
IntBitLen(n) == CHOOSE k \in 0..LimbBits : n < Pow2(k) /\ (k = 0 \/ Pow2(k - 1) <= n)

BigBitLen(a) ==
    IF a = << >> THEN 0 ELSE LimbBits * (Len(a) - 1) + IntBitLen(a[Len(a)])

\* bit i of a, bit 0 the least significant
BigBit(a, i) == (BigLimb(a, (i \div LimbBits) + 1) \div Pow2(i % LimbBits)) % 2

\* whether a has a one among its k lowest bits
BigLowNonzero(a, k) ==
    \/ \E j \in 1..(k \div LimbBits) : BigLimb(a, j) # 0
    \/ BigLimb(a, (k \div LimbBits) + 1) % Pow2(k % LimbBits) # 0

\* a * k for a limb k
BigMulLimb(a, k) == IF k = 0 THEN << >> ELSE BigMulLimbFrom(a, k, 1, 0)

\* the quotient limb qd put in front of the quotient q, d * qd taken off rem
BigDivModTake(d, q, rem, qd) ==
    [q |-> <<qd>> \o q, r |-> BigSub(rem, BigMulLimb(d, qd))]

\* the quotient limb is at most 2 below its estimate est
BigDivModCorrect(d, q, rem, est) ==
    BigDivModTake(d, q, rem,
                  IF BigCmp(BigMulLimb(d, est), rem) <= 0 THEN est
                  ELSE IF BigCmp(BigMulLimb(d, est - 1), rem) <= 0
                  THEN est - 1
                  ELSE est - 2)

\* the quotient limb estimated from top, the two top limbs of rem
BigDivModEstimate(d, q, rem, top) ==
    BigDivModCorrect(d, q, rem,
                     IF top \div d[Len(d)] < LimbBase THEN top \div d[Len(d)]
                     ELSE LimbBase - 1)

BigDivModDigit(d, q, rem) ==
    BigDivModEstimate(d, q, rem,
                      BigLimb(rem, Len(d) + 1) * LimbBase
                          + BigLimb(rem, Len(d)))

\* long division, limb j of n brought down into the quotient and remainder
\* st; the top limb of d is at least LimbBase / 2
BigDivModStep(n, d, j, st) ==
    IF Len(st.r) + 1 < Len(d)
    THEN [q |-> <<0>> \o st.q, r |-> BigTrim(<<n[j]>> \o st.r)]
    ELSE BigDivModDigit(d, st.q, BigTrim(<<n[j]>> \o st.r))

RECURSIVE BigDivModLimbs(_, _, _)
BigDivModLimbs(n, d, j) ==
    IF j > Len(n) THEN [q |-> << >>, r |-> << >>]
    ELSE BigDivModStep(n, d, j, BigDivModLimbs(n, d, j + 1))

BigDivModResult(qr) == [q |-> BigTrim(qr.q), r |-> qr.r # << >>]

\* d and n shifted by s bits, the top limb of d brought to LimbBase / 2
BigDivModShifted(n, d, s) ==
    BigDivModResult(BigDivModLimbs(BigShl(n, s), BigShl(d, s), 1))

\* quotient q of n by d, d # 0, and r: whether the remainder is not 0
BigDivMod(n, d) == BigDivModShifted(n, d, LimbBits - IntBitLen(d[Len(d)]))

(***************************************************************************)
(* double: binary64 values >= 0, and the operations on them the program    *)
(* uses.                                                                   *)
(***************************************************************************)
DZero == [m |-> << >>, e |-> 0]

\* the number of zero bits below the lowest one bit of the limb n # 0
IntTrailingZeros(n) ==
    CHOOSE b \in 0..(LimbBits - 1) : n % Pow2(b + 1) # 0 /\ n % Pow2(b) = 0

\* the number of zero bits below the lowest one bit of a, a[j] its lowest
\* limb that is not 0
BigTrailingZerosAt(a, j) == LimbBits * (j - 1) + IntTrailingZeros(a[j])

BigTrailingZeros(a) ==
    BigTrailingZerosAt(a, CHOOSE j \in 1..Len(a) :
                              a[j] # 0 /\ \A i \in 1..(j - 1) : a[i] = 0)

DNormBy(n, e, tz) == [m |-> BigShr(n, tz), e |-> e + tz]

\* the value n * 2^e, n held exactly
DNorm(n, e) == IF n = << >> THEN DZero ELSE DNormBy(n, e, BigTrailingZeros(n))

\* q rounded up when the bit below it is 1 and either a lower bit is or q is
\* odd
DRoundQuot(q, e, roundBit, low) ==
    DNorm(IF roundBit = 1 /\ (low \/ BigBit(q, 0) = 1) THEN BigAdd(q, <<1>>)
          ELSE q, e)

\* n with its sh lowest bits rounded off
DRoundAt(n, e, sticky, sh) ==
    IF sh <= 0 THEN DRoundQuot(n, e, 0, FALSE)
    ELSE DRoundQuot(BigShr(n, sh), e + sh, BigBit(n, sh - 1),
                    sticky \/ BigLowNonzero(n, sh - 1))

\* n * 2^e (plus a positive amount below 2^e when sticky) rounded to the
\* nearest double, ties to even
DRound(n, e, sticky) == DRoundAt(n, e, sticky, BigBitLen(n) - MantissaBits)

\* static_cast<double>(n) for an integer 0 <= n < 2^31
DFromInt(n) == DNorm(BigFromInt(n), 0)

\* x * y
DMul(x, y) ==
    IF x.m = << >> \/ y.m = << >> THEN DZero
    ELSE DRound(BigMul(x.m, y.m), x.e + y.e, FALSE)

DQuotRound(qr, e) == DRound(qr.q, e, qr.r)

\* n shifted by k bits, for a quotient of MantissaBits + 2 bits or more
DQuotShifted(n, d, e, k) == DQuotRound(BigDivMod(BigShl(n, k), d), e - k)

DQuotShift(want) == IF want > 0 THEN want ELSE 0

\* (n / d) * 2^e rounded to the nearest double, for naturals n and d # 0
DQuot(n, d, e) ==
    IF n = << >> THEN DZero
    ELSE DQuotShifted(n, d, e,
                      DQuotShift(BigBitLen(d) + MantissaBits + 3
                                     - BigBitLen(n)))

\* x / y, y # 0
DDiv(x, y) == DQuot(x.m, y.m, x.e - y.e)

\* static_cast<int64_t>(x): truncation toward zero
DTrunc(x) ==
    IF x.e >= 0 THEN BigToInt(BigShl(x.m, x.e))
    ELSE BigToInt(BigShr(x.m, -x.e))

\* num == static_cast<int>(num)
isWhole(num) == num.m = << >> \/ num.e >= 0

(***************************************************************************)
(* unit.h, unit.cpp: the unit model.                                       *)
(***************************************************************************)
Unit == {"Unit::Ounce", "Unit::Pound", "Unit::Kilogram", "Unit::Gram"}

CountType == {"CountType::Ounce", "CountType::Pound", "CountType::Kilogram",
              "CountType::Gram", "CountType::Quantity"}

System == {"System::Metric", "System::Imperial"}

\* std::optional<T>
nullopt == [has_value |-> FALSE]
Some(v) == [has_value |-> TRUE, value |-> v]

OZ_PER_LB == 16
GRAM_PER_KG == 1000
\* the literal 0.45359237
KG_PER_LB == DQuot(BigFromInt(45359237), BigFromInt(100000000), 0)

getUnitSystem(unit) ==
    CASE unit = "Unit::Ounce" -> "System::Imperial"
      [] unit = "Unit::Pound" -> "System::Imperial"
      [] unit = "Unit::Kilogram" -> "System::Metric"
      [] unit = "Unit::Gram" -> "System::Metric"

convertCountTypeToUnit(countType) ==
    CASE countType = "CountType::Ounce" -> Some("Unit::Ounce")
      [] countType = "CountType::Pound" -> Some("Unit::Pound")
      [] countType = "CountType::Kilogram" -> Some("Unit::Kilogram")
      [] countType = "CountType::Gram" -> Some("Unit::Gram")
      [] OTHER -> nullopt

\* the metric units taken for one another
convertUnitToCountTypeMetricSwapped(unit) ==
    CASE unit = "Unit::Ounce" -> "CountType::Ounce"
      [] unit = "Unit::Pound" -> "CountType::Pound"
      [] unit = "Unit::Kilogram" -> "CountType::Gram"
      [] unit = "Unit::Gram" -> "CountType::Kilogram"

convertUnitToCountType(unit) ==
    CASE unit = "Unit::Ounce" -> "CountType::Ounce"
      [] unit = "Unit::Pound" -> "CountType::Pound"
      [] unit = "Unit::Kilogram" -> "CountType::Kilogram"
      [] unit = "Unit::Gram" -> "CountType::Gram"

\* the ounces multiplied where they are to be divided
ouncesToPoundsMultiplied(ounces) == DMul(ounces, DFromInt(OZ_PER_LB))

ouncesToPounds(ounces) == DDiv(ounces, DFromInt(OZ_PER_LB))

poundsToKilograms(pounds) == DMul(pounds, KG_PER_LB)

kilogramsToPounds(kilograms) == DDiv(kilograms, KG_PER_LB)

convertWeight(weight, from, to) ==
    CASE from = "Unit::Ounce" ->
           (CASE to = "Unit::Ounce" -> weight
              [] to = "Unit::Pound" -> ouncesToPounds(weight)
              [] to = "Unit::Kilogram" ->
                   poundsToKilograms(ouncesToPounds(weight))
              [] to = "Unit::Gram" ->
                   DMul(poundsToKilograms(ouncesToPounds(weight)),
                        DFromInt(GRAM_PER_KG)))
      [] from = "Unit::Pound" ->
           (CASE to = "Unit::Ounce" -> DMul(weight, DFromInt(OZ_PER_LB))
              [] to = "Unit::Pound" -> weight
              [] to = "Unit::Kilogram" -> poundsToKilograms(weight)
              [] to = "Unit::Gram" ->
                   DMul(poundsToKilograms(weight), DFromInt(GRAM_PER_KG)))
      [] from = "Unit::Kilogram" ->
           (CASE to = "Unit::Ounce" ->
                   DMul(kilogramsToPounds(weight), DFromInt(OZ_PER_LB))
              [] to = "Unit::Pound" -> kilogramsToPounds(weight)
              [] to = "Unit::Kilogram" -> weight
              [] to = "Unit::Gram" -> DMul(weight, DFromInt(GRAM_PER_KG)))
      [] from = "Unit::Gram" ->
           (CASE to = "Unit::Ounce" ->
                   DMul(kilogramsToPounds(DDiv(weight, DFromInt(GRAM_PER_KG))),
                        DFromInt(OZ_PER_LB))
              [] to = "Unit::Pound" ->
                   kilogramsToPounds(DDiv(weight, DFromInt(GRAM_PER_KG)))
              [] to = "Unit::Kilogram" -> DDiv(weight, DFromInt(GRAM_PER_KG))
              [] to = "Unit::Gram" -> weight)

(***************************************************************************)
(* utils.cpp: scanner primitives.  Bytes above 0x7f are written by their   *)
(* hexadecimal value, "<C3>".                                              *)
(***************************************************************************)
\* the bytes of a string literal
Chars(str) == SubSeq([i \in 1..Len(str) |-> SubSeq(str, i, i)], 1, Len(str))

Digits == <<"0", "1", "2", "3", "4", "5", "6", "7", "8", "9">>

isdigit(c) == \E i \in 1..10 : Digits[i] = c

DigitVal(c) == (CHOOSE i \in 1..10 : Digits[i] = c) - 1

Lead4 == {"<F0>"}
Lead3 == {"<E2>"}
Lead2 == {"<C3>"}

getCharLen(c) ==
    IF c \in Lead4 THEN 4
    ELSE IF c \in Lead3 THEN 3
    ELSE IF c \in Lead2 THEN 2
    ELSE 1

\* std::string_view over a whole line
View(line) == [buf |-> line, lo |-> 1, hi |-> Len(line)]

ViewLen(sView) == sView.hi - sView.lo + 1

ViewText(sView) == SubSeq(sView.buf, sView.lo, sView.hi)

\* std::string_view(sView.data(), sView.length() - n)
DropBack(sView, n) == [sView EXCEPT !.hi = @ - n]

\* std::string_view(sView.data() + n, sView.length() - n)
DropFront(sView, n) == [sView EXCEPT !.lo = @ + n]

startsWith(fullString, start) ==
    /\ Len(start) <= ViewLen(fullString)
    /\ SubSeq(fullString.buf, fullString.lo,
              fullString.lo + Len(start) - 1) = start

endsWith(fullString, ending) ==
    /\ Len(ending) <= ViewLen(fullString)
    /\ SubSeq(fullString.buf, fullString.hi - Len(ending) + 1,
              fullString.hi) = ending

\* the byte of buf at position p, the terminating NUL past the end
ByteAt(buf, p) == IF p >= 1 /\ p <= Len(buf) THEN buf[p] ELSE "<00>"

\* the length of the run of decimal digits of buf that starts at p
RECURSIVE DigitRun(_, _)
DigitRun(buf, p) ==
    IF isdigit(ByteAt(buf, p)) THEN 1 + DigitRun(buf, p + 1) ELSE 0

\* the decimal digits buf[p .. p + n - 1] as a natural
RECURSIVE DigitsToInt(_, _, _)
DigitsToInt(buf, p, n) ==
    IF n = 0 THEN 0
    ELSE 10 * DigitsToInt(buf, p, n - 1) + DigitVal(buf[p + n - 1])

RECURSIVE DigitsToBig(_, _, _)
DigitsToBig(buf, p, n) ==
    IF n = 0 THEN << >>
    ELSE BigAdd(BigMulLimbFrom(DigitsToBig(buf, p, n - 1), 10, 1, 0),
                BigFromInt(DigitVal(buf[p + n - 1])))

RECURSIVE BigPow10(_)
BigPow10(n) ==
    IF n = 0 THEN <<1>> ELSE BigMulLimbFrom(BigPow10(n - 1), 10, 1, 0)

\* std::atoi(s.data()): reads the digits at s.data() up to the first byte
\* that is not a digit, whatever the length of the view (the program calls
\* it at a digit only)
atoi(buf, p) == DigitsToInt(buf, p, DigitRun(buf, p))

\* the decimal mant * 10^scale as a double
AtofScaled(mant, scale) ==
    DQuot(IF scale >= 0 THEN BigMul(mant, BigPow10(scale)) ELSE BigTrim(mant),
          IF scale >= 0 THEN <<1>> ELSE BigPow10(0 - scale), 0)

AtofValue(buf, p, wholeLen, fracLen, expVal) ==
    IF wholeLen + fracLen = 0 THEN DZero
    ELSE AtofScaled(BigAdd(BigMul(DigitsToBig(buf, p, wholeLen),
                                  BigPow10(fracLen)),
                           DigitsToBig(buf, p + wholeLen + 1, fracLen)),
                    expVal - fracLen)

AtofExpDigits(buf, negative, expAt, expLen) ==
    IF expLen = 0 THEN 0
    ELSE IF negative THEN 0 - DigitsToInt(buf, expAt, expLen)
    ELSE DigitsToInt(buf, expAt, expLen)

AtofExpAt(buf, negative, expAt) ==
    AtofExpDigits(buf, negative, expAt, DigitRun(buf, expAt))

\* the exponent written at mantEnd, 0 when there is none
AtofExp(buf, mantEnd) ==
    IF ByteAt(buf, mantEnd) \notin {"e", "E"} THEN 0
    ELSE IF ByteAt(buf, mantEnd + 1) = "-"
    THEN AtofExpAt(buf, TRUE, mantEnd + 2)
    ELSE IF ByteAt(buf, mantEnd + 1) = "+"
    THEN AtofExpAt(buf, FALSE, mantEnd + 2)
    ELSE AtofExpAt(buf, FALSE, mantEnd + 1)

AtofMantissa(buf, p, wholeLen, hasPoint, fracLen) ==
    AtofValue(buf, p, wholeLen, fracLen,
              AtofExp(buf, IF hasPoint THEN p + wholeLen + 1 + fracLen
                           ELSE p + wholeLen))

AtofFraction(buf, p, wholeLen, hasPoint) ==
    AtofMantissa(buf, p, wholeLen, hasPoint,
                 IF hasPoint THEN DigitRun(buf, p + wholeLen + 1) ELSE 0)

AtofWhole(buf, p, wholeLen) ==
    AtofFraction(buf, p, wholeLen, ByteAt(buf, p + wholeLen) = ".")

\* std::atof(s.data()): reads the longest decimal number at s.data(),
\* digits [. digits] [e [+|-] digits], whatever the length of the view, and
\* gives 0 when there is none (the program calls it at a digit or at the
\* byte after an empty view)
atof(buf, p) == AtofWhole(buf, p, DigitRun(buf, p))

\* std::optional<double> stringToDouble(s)
stringToDouble(s) == Some(atof(s.buf, s.lo))

\* std::optional<int64_t> stringToInt(s)
stringToInt(s) == Some(atoi(s.buf, s.lo))

(***************************************************************************)
(* shopping_list.cpp: the scanners.  A function that can throw gives a     *)
(* record whose err is the message of the std::runtime_error, "" when it   *)
(* returns normally.                                                       *)
(***************************************************************************)
NoError == ""
ErrStartNumber == "Expected string to start with a number"
ErrNumberDecimals == "Too many decimal places in number string"
ErrEndNumber == "Expected string to end with a number"
ErrPriceDecimals == "Too many decimal places in price string"
ErrSlash == "Expected slash before price"
ErrDollar == "Expected dollar sign before price"
ErrUnitCount == "Expected unit count before price"
ErrComma == "Expected comma before price"
ErrUnit == "Expected a unit of measurement after the quantity"
ErrSpace == "Expected space after the unit of measurement"
ErrInvalidUnit == "Invalid unit"
ErrBadOptional == "bad optional access"

Throw(msg) == [err |-> msg]

\* the loop of detectDoubleFromFront from index i on
RECURSIVE DoubleFrontLoop(_, _, _, _)
DoubleFrontLoop(sView, i, numStrLen, decimalCount) ==
    IF i >= ViewLen(sView) THEN [err |-> NoError, numStrLen |-> numStrLen]
    ELSE LET c == sView.buf[sView.lo + i]
             charLen == getCharLen(c)
         IN  IF charLen # 1 THEN Throw(ErrStartNumber)
             ELSE IF isdigit(c)
             THEN DoubleFrontLoop(sView, i + charLen, numStrLen + charLen,
                                  decimalCount)
             ELSE IF c = "."
             THEN IF decimalCount > 0 THEN Throw(ErrNumberDecimals)
                  ELSE IF numStrLen = 0 THEN Throw(ErrStartNumber)
                  ELSE DoubleFrontLoop(sView, i + charLen, numStrLen + charLen,
                                       decimalCount + 1)
             ELSE IF numStrLen = 0 THEN Throw(ErrStartNumber)
             ELSE [err |-> NoError, numStrLen |-> numStrLen]

DoubleFrontParsed(sView, numStrLen, numOpt) ==
    IF ~numOpt.has_value THEN Throw("Failed to parse number as double")
    ELSE [err |-> NoError, num |-> numOpt.value,
          sView |-> DropFront(sView, numStrLen)]

DoubleFrontScanned(sView, scan) ==
    IF scan.err # NoError THEN Throw(scan.err)
    ELSE DoubleFrontParsed(sView, scan.numStrLen,
                           stringToDouble([sView EXCEPT
                               !.hi = sView.lo + scan.numStrLen - 1]))

detectDoubleFromFront(sView) ==
    DoubleFrontScanned(sView, DoubleFrontLoop(sView, 0, 0, 0))

\* the loop of detectDecimalFromBack from index i down; i = -1 is the index
\* that wrapped around below 0
RECURSIVE DecimalBackLoop(_, _, _, _, _)
DecimalBackLoop(sView, i, fractionalLength, wholeLength, decimalCount) ==
    IF i < 0 \/ i >= ViewLen(sView)
    THEN [err |-> NoError, fractionalLength |-> fractionalLength,
          wholeLength |-> wholeLength]
    ELSE LET c == sView.buf[sView.lo + i]
             charLen == getCharLen(c)
         IN  IF charLen # 1 THEN Throw(ErrEndNumber)
             ELSE IF isdigit(c)
             THEN IF decimalCount = 0
                  THEN DecimalBackLoop(sView, i - charLen,
                                       fractionalLength + charLen, wholeLength,
                                       decimalCount)
                  ELSE IF decimalCount = 1
                  THEN DecimalBackLoop(sView, i - charLen, fractionalLength,
                                       wholeLength + charLen, decimalCount)
                  ELSE Throw(ErrPriceDecimals)
             ELSE IF c = "."
             THEN IF decimalCount > 0 THEN Throw(ErrPriceDecimals)
                  ELSE IF fractionalLength = 0 THEN Throw(ErrEndNumber)
                  ELSE DecimalBackLoop(sView, i - charLen, fractionalLength,
                                       wholeLength, decimalCount + 1)
             ELSE IF fractionalLength = 0 THEN Throw(ErrEndNumber)
             ELSE [err |-> NoError, fractionalLength |-> fractionalLength,
                   wholeLength |-> wholeLength]

DecimalBackParsed(sView, fractionalLength, fractionalOpt, wholeOpt) ==
    IF ~fractionalOpt.has_value
    THEN Throw("Failed to parse fractional as integer")
    ELSE IF ~wholeOpt.has_value
    THEN Throw("Failed to parse whole as integer")
    ELSE [err |-> NoError, whole |-> wholeOpt.value,
          fractional |-> fractionalOpt.value,
          fractionalLength |-> fractionalLength, sView |-> sView]

\* sView1: the view without the fractional digits and the period
DecimalBackWhole(sView1, wholeLength, fractionalLength, fractionalOpt) ==
    DecimalBackParsed(DropBack(sView1, wholeLength), fractionalLength,
                      fractionalOpt,
                      stringToInt([sView1 EXCEPT
                          !.lo = sView1.hi - wholeLength + 1]))

\* a price with no digit before its period let through
DecimalBackScannedWholeOptional(sView, scan) ==
    IF scan.err # NoError THEN Throw(scan.err)
    ELSE IF scan.fractionalLength = 0 THEN Throw(ErrEndNumber)
    ELSE DecimalBackWhole(DropBack(sView, scan.fractionalLength + 1),
                          scan.wholeLength, scan.fractionalLength,
                          stringToInt([sView EXCEPT
                              !.lo = sView.hi - scan.fractionalLength + 1]))

DecimalBackScanned(sView, scan) ==
    IF scan.err # NoError THEN Throw(scan.err)
    ELSE IF scan.fractionalLength = 0 THEN Throw(ErrEndNumber)
    ELSE IF scan.wholeLength = 0 THEN Throw(ErrEndNumber)
    ELSE DecimalBackWhole(DropBack(sView, scan.fractionalLength + 1),
                          scan.wholeLength, scan.fractionalLength,
                          stringToInt([sView EXCEPT
                              !.lo = sView.hi - scan.fractionalLength + 1]))

detectDecimalFromBack(sView) ==
    DecimalBackScanned(sView,
                       DecimalBackLoop(sView, ViewLen(sView) - 1, 0, 0, 0))

\* the loop of tryExtractIntFromBack from index i down
RECURSIVE IntBackLoop(_, _, _)
IntBackLoop(sView, i, numStrLength) ==
    IF i < 0 \/ i >= ViewLen(sView)
    THEN [err |-> NoError, numStrLength |-> numStrLength]
    ELSE LET c == sView.buf[sView.lo + i]
             charLen == getCharLen(c)
         IN  IF charLen # 1 THEN Throw(ErrEndNumber)
             ELSE IF isdigit(c)
             THEN IntBackLoop(sView, i - charLen, numStrLength + charLen)
             ELSE [err |-> NoError, numStrLength |-> numStrLength]

IntBackParsed(sView, numStrLength, numOpt) ==
    IF ~numOpt.has_value THEN Throw("Failed to parse unit count as integer")
    ELSE [err |-> NoError, opt |-> Some(numOpt.value),
          sView |-> DropBack(sView, numStrLength)]

IntBackScanned(sView, scan) ==
    IF scan.err # NoError THEN Throw(scan.err)
    ELSE IF scan.numStrLength = 0
    THEN [err |-> NoError, opt |-> nullopt, sView |-> sView]
    ELSE IntBackParsed(sView, scan.numStrLength,
                       stringToInt([sView EXCEPT
                           !.lo = sView.hi - scan.numStrLength + 1]))

tryExtractIntFromBack(sView) ==
    IntBackScanned(sView, IntBackLoop(sView, ViewLen(sView) - 1, 0))

(***************************************************************************)
(* shopping_list.cpp: parseShoppingListItemStr, block by block.            *)
(***************************************************************************)
\* the optional separator tok at the back of the view
StripBack(sView, tok) ==
    IF endsWith(sView, Chars(tok)) THEN DropBack(sView, Len(tok)) ELSE sView

\* the optional separator tok at the front of the view
StripFront(sView, tok) ==
    IF startsWith(sView, Chars(tok)) THEN DropFront(sView, Len(tok)) ELSE sView

\* the chain of endsWith tests on the unit of the price
TrailingCountType(sView) ==
    IF endsWith(sView, Chars("lbs"))
    THEN [sView |-> DropBack(sView, 3), perUnitCountType |-> "CountType::Pound",
          hasPerUnitCountType |-> TRUE]
    ELSE IF endsWith(sView, Chars("lb"))
    THEN [sView |-> DropBack(sView, 2), perUnitCountType |-> "CountType::Pound",
          hasPerUnitCountType |-> TRUE]
    ELSE IF endsWith(sView, Chars("oz"))
    THEN [sView |-> DropBack(sView, 2), perUnitCountType |-> "CountType::Ounce",
          hasPerUnitCountType |-> TRUE]
    ELSE IF endsWith(sView, Chars("g"))
    THEN [sView |-> DropBack(sView, 1), perUnitCountType |-> "CountType::Gram",
          hasPerUnitCountType |-> TRUE]
    ELSE IF endsWith(sView, Chars("kg"))
    THEN [sView |-> DropBack(sView, 2),
          perUnitCountType |-> "CountType::Kilogram",
          hasPerUnitCountType |-> TRUE]
    ELSE IF endsWith(sView, Chars("ea"))
    THEN [sView |-> DropBack(sView, 2),
          perUnitCountType |-> "CountType::Quantity",
          hasPerUnitCountType |-> TRUE]
    ELSE [sView |-> sView, perUnitCountType |-> "CountType::Quantity",
          hasPerUnitCountType |-> FALSE]

\* the count of the unit of the price dropped, the price taken per one unit
TrailingSlashCountDropped(perUnitCountOpt) ==
    IF perUnitCountOpt.err # NoError THEN Throw(perUnitCountOpt.err)
    ELSE IF endsWith(perUnitCountOpt.sView, Chars("/"))
    THEN [err |-> NoError, sView |-> DropBack(perUnitCountOpt.sView, 1),
          perUnitCount |-> 1]
    ELSE Throw(ErrSlash)

\* the slash before the count of the unit of the price taken as optional
TrailingSlashOptional(perUnitCountOpt) ==
    IF perUnitCountOpt.err # NoError THEN Throw(perUnitCountOpt.err)
    ELSE [err |-> NoError, sView |-> StripBack(perUnitCountOpt.sView, "/"),
          perUnitCount |-> IF perUnitCountOpt.opt.has_value
                           THEN perUnitCountOpt.opt.value ELSE 1]

\* the slash before the count of the unit of the price
TrailingSlash(perUnitCountOpt) ==
    IF perUnitCountOpt.err # NoError THEN Throw(perUnitCountOpt.err)
    ELSE IF endsWith(perUnitCountOpt.sView, Chars("/"))
    THEN [err |-> NoError, sView |-> DropBack(perUnitCountOpt.sView, 1),
          perUnitCount |-> IF perUnitCountOpt.opt.has_value
                           THEN perUnitCountOpt.opt.value ELSE 1]
    ELSE Throw(ErrSlash)

\* the count of the unit of the price and the slash before it
TrailingPerUnitCount(sView, hasPerUnitCountType) ==
    IF ~hasPerUnitCountType
    THEN [err |-> NoError, sView |-> sView, perUnitCount |-> 1]
    ELSE TrailingSlash(tryExtractIntFromBack(sView))

\* the price with its dollars counted as cents
TrailingDollarDollarsAsCents(price) ==
    IF price.err # NoError THEN Throw(price.err)
    ELSE IF endsWith(price.sView, Chars("$"))
    THEN [err |-> NoError, sView |-> DropBack(price.sView, 1),
          priceCentsPerUnit |-> price.whole + price.fractional]
    ELSE Throw(ErrDollar)

\* the price in cents and the dollar sign before it
TrailingDollar(price) ==
    IF price.err # NoError THEN Throw(price.err)
    ELSE IF endsWith(price.sView, Chars("$"))
    THEN [err |-> NoError, sView |-> DropBack(price.sView, 1),
          priceCentsPerUnit |-> (price.whole * 100) + price.fractional]
    ELSE Throw(ErrDollar)

\* the price and the dollar sign before it
TrailingPrice(sView) == TrailingDollar(detectDecimalFromBack(sView))

\* a slash with no count before it let through, the price taken per one
QuantityDiscountCountOptional(perUnitCountOpt) ==
    IF perUnitCountOpt.err # NoError THEN Throw(perUnitCountOpt.err)
    ELSE [err |-> NoError, sView |-> perUnitCountOpt.sView,
          perUnitCount |-> IF perUnitCountOpt.opt.has_value
                           THEN perUnitCountOpt.opt.value ELSE 1,
          perUnitCountType |-> "CountType::Quantity"]

QuantityDiscountCount(perUnitCountOpt) ==
    IF perUnitCountOpt.err # NoError THEN Throw(perUnitCountOpt.err)
    ELSE IF perUnitCountOpt.opt.has_value
    THEN [err |-> NoError, sView |-> perUnitCountOpt.sView,
          perUnitCount |-> perUnitCountOpt.opt.value,
          perUnitCountType |-> "CountType::Quantity"]
    ELSE Throw(ErrUnitCount)

\* the count of a quantity price, 5/$1.00
QuantityDiscount(sView, hasPerUnitCountType, perUnitCountType, perUnitCount) ==
    IF ~hasPerUnitCountType /\ endsWith(sView, Chars("/"))
    THEN QuantityDiscountCount(tryExtractIntFromBack(DropBack(sView, 1)))
    ELSE [err |-> NoError, sView |-> sView, perUnitCount |-> perUnitCount,
          perUnitCountType |-> perUnitCountType]

PriceTailDiscount(price, discount) ==
    IF discount.err # NoError THEN Throw(discount.err)
    ELSE [err |-> NoError, sView |-> StripBack(discount.sView, " "),
          priceCentsPerUnit |-> price.priceCentsPerUnit,
          perUnitCount |-> discount.perUnitCount,
          perUnitCountType |-> discount.perUnitCountType]

PriceTailPrice(unit, perUnit, price) ==
    IF price.err # NoError THEN Throw(price.err)
    ELSE PriceTailDiscount(price,
                           QuantityDiscount(price.sView,
                                            unit.hasPerUnitCountType,
                                            unit.perUnitCountType,
                                            perUnit.perUnitCount))

PriceTailCount(unit, perUnit) ==
    IF perUnit.err # NoError THEN Throw(perUnit.err)
    ELSE PriceTailPrice(unit, perUnit, TrailingPrice(perUnit.sView))

PriceTailUnit(unit) ==
    PriceTailCount(unit,
                   TrailingPerUnitCount(StripBack(unit.sView, " "),
                                        unit.hasPerUnitCountType))

\* everything parseShoppingListItemStr takes from the back of the line before
\* it looks for the comma
ParsePriceTail(s) == PriceTailUnit(TrailingCountType(StripBack(View(s), ".")))

\* the count defaulted to 1 whatever the price is per
LeadingCountOrDefaultAlways(sView, expectsQuantity, count) ==
    IF count.err = NoError
    THEN [err |-> NoError, count |-> count.num, sView |-> count.sView]
    ELSE [err |-> NoError, count |-> DFromInt(1), sView |-> sView]

\* the count scanned, or 1 when a quantity is expected and there is none
LeadingCountOrDefault(sView, expectsQuantity, count) ==
    IF count.err = NoError
    THEN [err |-> NoError, count |-> count.num, sView |-> count.sView]
    ELSE IF expectsQuantity
    THEN [err |-> NoError, count |-> DFromInt(1), sView |-> sView]
    ELSE Throw(count.err)

\* the count at the front of the line
LeadingCount(sView, expectsQuantity) ==
    LeadingCountOrDefault(sView, expectsQuantity, detectDoubleFromFront(sView))

\* the chain of startsWith tests on the unit of the count
LeadingCountType(sView, count) ==
    IF startsWith(sView, Chars("lbs"))
    THEN [err |-> NoError, sView |-> DropFront(sView, 3),
          countType |-> "CountType::Pound"]
    ELSE IF startsWith(sView, Chars("lb"))
    THEN [err |-> NoError, sView |-> DropFront(sView, 2),
          countType |-> "CountType::Pound"]
    ELSE IF startsWith(sView, Chars("oz"))
    THEN [err |-> NoError, sView |-> DropFront(sView, 2),
          countType |-> "CountType::Ounce"]
    ELSE IF startsWith(sView, Chars("g"))
    THEN [err |-> NoError, sView |-> DropFront(sView, 1),
          countType |-> "CountType::Gram"]
    ELSE IF startsWith(sView, Chars("kg"))
    THEN [err |-> NoError, sView |-> DropFront(sView, 2),
          countType |-> "CountType::Kilogram"]
    ELSE IF isWhole(count)
    THEN [err |-> NoError, sView |-> sView,
          countType |-> "CountType::Quantity"]
    ELSE Throw(ErrUnit)

\* the period after a unit of weight left in place
AfterCountTypePeriodKept(sView, countType) ==
    IF countType # "CountType::Quantity"
    THEN IF startsWith(sView, Chars(" "))
         THEN [err |-> NoError, sView |-> DropFront(sView, 1)]
         ELSE Throw(ErrSpace)
    ELSE [err |-> NoError, sView |-> sView]

\* the space after a unit of weight taken as optional
AfterPeriodSpaceOptional(sView) ==
    [err |-> NoError, sView |-> StripFront(sView, " ")]

\* the space after a unit of weight
AfterPeriod(sView) ==
    IF startsWith(sView, Chars(" "))
    THEN [err |-> NoError, sView |-> DropFront(sView, 1)]
    ELSE Throw(ErrSpace)

\* the period and the space after a unit of weight
AfterCountType(sView, countType) ==
    IF countType # "CountType::Quantity"
    THEN AfterPeriod(StripFront(sView, "."))
    ELSE [err |-> NoError, sView |-> sView]

\* the comma taken as optional
TrailingCommaOptional(sView) ==
    [err |-> NoError, sView |-> StripBack(sView, ",")]

\* the comma before the price
TrailingComma(sView) ==
    IF endsWith(sView, Chars(","))
    THEN [err |-> NoError, sView |-> DropBack(sView, 1)]
    ELSE Throw(ErrComma)

ParsedItem(tail, count, unit, rest) ==
    IF rest.err # NoError THEN Throw(rest.err)
    ELSE [err |-> NoError,
          item |-> [name |-> ViewText(rest.sView),
                    priceCentsPerUnit |-> tail.priceCentsPerUnit,
                    count |-> count.count,
                    countType |-> unit.countType,
                    perUnitCount |-> tail.perUnitCount,
                    perUnitCountType |-> tail.perUnitCountType]]

ParseName(tail, count, unit) ==
    IF unit.err # NoError THEN Throw(unit.err)
    ELSE ParsedItem(tail, count, unit,
                    AfterCountType(unit.sView, unit.countType))

ParseCountType(tail, count) ==
    IF count.err # NoError THEN Throw(count.err)
    ELSE ParseName(tail, count,
                   LeadingCountType(StripFront(count.sView, " "), count.count))

ParseCount(tail, comma) ==
    IF comma.err # NoError THEN Throw(comma.err)
    ELSE ParseCountType(tail,
                        LeadingCount(comma.sView,
                                     \/ tail.perUnitCountType =
                                           "CountType::Quantity"
                                     \/ tail.perUnitCount # 1))

ParseComma(tail) ==
    IF tail.err # NoError THEN Throw(tail.err)
    ELSE ParseCount(tail, TrailingComma(tail.sView))

parseShoppingListItemStr(s) == ParseComma(ParsePriceTail(s))

(***************************************************************************)
(* shopping_list.cpp: getShoppingListItemTotalPrice.                       *)
(***************************************************************************)
\* priceCents *= ratio, for an int64_t priceCents and a double ratio
TimesDouble(priceCents, ratio) == DTrunc(DMul(DFromInt(priceCents), ratio))

\* the weight branch: the count converted to the unit of the price
WeightTotalPrice(shoppingListItem, count, countUnitOpt, perUnitUnitOpt) ==
    IF ~countUnitOpt.has_value THEN Throw(ErrBadOptional)
    ELSE IF ~perUnitUnitOpt.has_value THEN Throw(ErrInvalidUnit)
    ELSE [err |-> NoError,
          value |-> TimesDouble(shoppingListItem.priceCentsPerUnit,
                                DDiv(convertWeight(count, countUnitOpt.value,
                                                   perUnitUnitOpt.value),
                                     DFromInt(shoppingListItem.perUnitCount)))]

\* the quantity branch taken only when both count types are Quantity
ItemTotalPriceBothQuantity(shoppingListItem, count, weightCount) ==
    IF /\ shoppingListItem.perUnitCountType = "CountType::Quantity"
       /\ shoppingListItem.countType = "CountType::Quantity"
    THEN IF shoppingListItem.perUnitCount # 1
         THEN [err |-> NoError,
               value |-> TimesDouble(shoppingListItem.priceCentsPerUnit,
                                     DDiv(DFromInt(count),
                                          DFromInt(shoppingListItem.perUnitCount)))]
         ELSE [err |-> NoError,
               value |-> shoppingListItem.priceCentsPerUnit * count]
    ELSE WeightTotalPrice(shoppingListItem, weightCount,
                          convertCountTypeToUnit(shoppingListItem.countType),
                          convertCountTypeToUnit(
                              shoppingListItem.perUnitCountType))

\* count: the count of the item truncated to an integer
ItemTotalPrice(shoppingListItem, count, weightCount) ==
    IF \/ shoppingListItem.perUnitCountType = "CountType::Quantity"
       \/ shoppingListItem.countType = "CountType::Quantity"
    THEN IF /\ shoppingListItem.perUnitCountType = "CountType::Quantity"
            /\ shoppingListItem.perUnitCount # 1
         THEN [err |-> NoError,
               value |-> TimesDouble(shoppingListItem.priceCentsPerUnit,
                                     DDiv(DFromInt(count),
                                          DFromInt(shoppingListItem.perUnitCount)))]
         ELSE [err |-> NoError,
               value |-> shoppingListItem.priceCentsPerUnit * count]
    ELSE WeightTotalPrice(shoppingListItem, weightCount,
                          convertCountTypeToUnit(shoppingListItem.countType),
                          convertCountTypeToUnit(
                              shoppingListItem.perUnitCountType))

\* the truncated count used for a weight as well
getShoppingListItemTotalPriceWholeWeight(shoppingListItem) ==
    ItemTotalPrice(shoppingListItem, DTrunc(shoppingListItem.count),
                   DFromInt(DTrunc(shoppingListItem.count)))

getShoppingListItemTotalPrice(shoppingListItem) ==
    ItemTotalPrice(shoppingListItem, DTrunc(shoppingListItem.count),
                   shoppingListItem.count)

(***************************************************************************)
(* display.cpp: the weight and the price per unit as they are displayed.   *)
(***************************************************************************)
\* the integer below x
roundTowardZero(x) ==
    IF x.m = << >> \/ x.e >= 0 THEN x ELSE DFromInt(DTrunc(x))

\* std::round(x): the nearest integer, a half rounded away from zero
round(x) ==
    IF x.m = << >> \/ x.e >= 0 THEN x
    ELSE DFromInt(DTrunc(x) + BigBit(x.m, (-x.e) - 1))

\* std::round(weight * scale) / scale
RoundedTo(weight, scale) == DDiv(round(DMul(weight, scale)), scale)

displayWeight(weight, unit) ==
    IF isWhole(weight) THEN weight
    ELSE CASE unit = "Unit::Ounce" -> RoundedTo(weight, DFromInt(10))
           [] unit = "Unit::Pound" -> RoundedTo(weight, DFromInt(100))
           [] unit = "Unit::Kilogram" -> RoundedTo(weight, DFromInt(100))
           [] unit = "Unit::Gram" -> round(weight)

ConvertedPerUnit(perUnitCount, perUnitUnit, priceCentsPerUnit) ==
    [perUnitCount |-> perUnitCount, perUnitUnit |-> perUnitUnit,
     priceCentsPerUnit |-> priceCentsPerUnit]

\* static_cast<int64_t> of a NaN is undefined: the smallest integer on
\* x86-64, 0 on AArch64, anything when the compiler folds it; the values
\* here stand for them
NaNAsInt64 == {-2147483647, 0, 1}

\* the switch on unit: the partner of the unit in the other system
PartnerUnit(unit) ==
    CASE unit = "Unit::Ounce" -> "Unit::Kilogram"
      [] unit = "Unit::Pound" -> "Unit::Kilogram"
      [] unit = "Unit::Kilogram" -> "Unit::Pound"
      [] unit = "Unit::Gram" -> "Unit::Pound"

\* what calculateConvertedPerUnit may return for a unit of the other
\* system; convertedUnitCount is 0 only for perUnitCount 0, and then
\* perUnitCountRatio is 0.0 / 0.0, a NaN
ConvertedToPartner(perUnitCount, preferredUnit, priceCentsPerUnit, convertedUnitCount) ==
    IF perUnitCount > 1
    THEN {ConvertedPerUnit(convertedUnitCount, preferredUnit,
                           priceCentsPerUnit)}
    ELSE IF convertedUnitCount.m = << >>
    THEN {ConvertedPerUnit(DFromInt(perUnitCount), preferredUnit, undefined) :
             undefined \in NaNAsInt64}
    ELSE {ConvertedPerUnit(DFromInt(perUnitCount), preferredUnit,
                           TimesDouble(priceCentsPerUnit,
                                       DDiv(DFromInt(perUnitCount),
                                            convertedUnitCount)))}

\* the set of what calculateConvertedPerUnit may return
calculateConvertedPerUnit(perUnitCount, unit, priceCentsPerUnit, preferredUnit) ==
    IF getUnitSystem(unit) = getUnitSystem(preferredUnit)
    THEN {ConvertedPerUnit(DFromInt(perUnitCount), unit, priceCentsPerUnit)}
    ELSE ConvertedToPartner(perUnitCount, PartnerUnit(unit), priceCentsPerUnit,
                            convertWeight(DFromInt(perUnitCount), unit,
                                          PartnerUnit(unit)))

(***************************************************************************)
(* The inputs.                                                             *)
(***************************************************************************)
MaxLines == 3
MaxHalfPounds == 6
MaxPerUnitCount == 3
MaxConversions == 2
MaxEnumSteps == 3
MaxWholeCount == 3
MaxDisplayCalls == 1

\* lines put together from a count and unit, a name, a separator, a
\* quantity-price count, a price and a unit of the price
Heads == {"", "1 ", "2 ", "3 ", "6 ", "1.5 ", "1 lb. ", "2 lb. ", "2 lbs. ",
          "1.5 lb. ", "32 oz ", "2 kg. ", "1 lb"}
Names == {"Chicken Breasts", "Ground Beef", "Apples"}
Separators == {", ", ",", " "}
Discounts == {"", "3/"}
Prices == {"$4.99", "$5.99", "$1.00", "$4.00", "4.99"}
Tails == {"", "/lb", "/2 lb", "/oz", "/kg", "/ea", "."}

Lines ==
    {Chars(h \o n \o sep \o d \o p \o t) :
        h \in Heads, n \in Names, sep \in Separators, d \in Discounts,
        p \in Prices, t \in Tails}

\* the lines of the files of several lines
BatchLines ==
    {Chars(""), Chars("// Produce"), Chars("//3 Apples, $1.00"),
     Chars("3 Apples, $1.00"), Chars("1 lb. Chicken Breasts, $4.99"),
     Chars("2 lb. Ground Beef, $5.99/2 lb"), Chars("Chicken Breasts $4.99"),
     Chars("Ground Beef, $5.99/lb")}

RECURSIVE SeqsUpTo(_, _)
SeqsUpTo(S, n) ==
    IF n = 0 THEN {<< >>}
    ELSE LET shorter == SeqsUpTo(S, n - 1)
         IN  shorter \cup {Append(q, x) : q \in shorter, x \in S}

\* lines "<whole N> <lb|lbs|oz|kg>. <Name>, $<D>.<CC>"
WeightUnitWords == {"lb", "lbs", "oz", "kg"}
WeightForms ==
    [N : 1..MaxWholeCount, unit : WeightUnitWords,
     name : {"Chicken Breasts", "Ground Beef"}, price : {"$4.99", "$12.00"}]

FormLine(f) ==
    Chars(Digits[f.N + 1] \o " " \o f.unit \o ". " \o f.name \o ", "
          \o f.price)

FormLines == {FormLine(f) : f \in WeightForms}

\* lines with nothing where the name is
NamelessLines == {Chars("3, $1.00"), Chars(", $1.00"), Chars("2 lb. , $4.99")}

\* lines for the steps of the parser one by one
StepLines ==
    {Chars("2 kg Rice, $3.00/kg"), Chars("2 lbs Rice, $3.00/lbs"),
     Chars(", $5.99/lb"), Chars(".5 Apples, $5.99/lb"),
     Chars(" Apples, $5.99/lb"), Chars("1.2.3 Apples, 3/$1.00"),
     Chars(".5 Apples, $1.00"), Chars(", 3/$1.00")}

\* lines "3 Apples, <lead><whole digits><dot><fractional digits>", the digits
\* with their values
PriceForms ==
    [lead : {"$", "", "x"},
     whole : {<<"", 0>>, <<"4", 4>>, <<"12", 12>>, <<"0", 0>>},
     dot : {".", ""},
     fractional : {<<"", 0>>, <<"5", 5>>, <<"99", 99>>, <<"999", 999>>,
                   <<"00", 0>>}]

PriceLine ==
    [f \in PriceForms |->
        Chars("3 Apples, " \o f.lead \o f.whole[1] \o f.dot
              \o f.fractional[1])]

PriceLines ==
    {PriceLine[f] : f \in PriceForms}
        \cup {Chars("3 Apples, $4.9.9"), Chars("3 Apples, $4..99")}

\* lines "3 Apples, $1.00<sep><count><space><token>", the count with its
\* value, 1 for none
PerUnitForms ==
    [sep : {"/", " ", ""},
     count : {<<"", 1>>, <<"2", 2>>, <<"12", 12>>},
     space : {"", " "},
     token : {"lbs", "lb", "oz", "g", "kg", "ea"}]

PerUnitLine ==
    [f \in PerUnitForms |->
        Chars("3 Apples, $1.00" \o f.sep \o f.count[1] \o f.space
              \o f.token)]

PerUnitLines == {PerUnitLine[f] : f \in PerUnitForms}

\* lines "6 Apples, <count>/$1.00" and "6 Apples, $1.00", with the count and
\* the total price of the six
DiscountForms ==
    {[text |-> "3/", perUnitCount |-> 3, total |-> 200],
     [text |-> "2/", perUnitCount |-> 2, total |-> 300],
     [text |-> "12/", perUnitCount |-> 12, total |-> 50],
     [text |-> "1/", perUnitCount |-> 1, total |-> 600],
     [text |-> "", perUnitCount |-> 1, total |-> 600]}

DiscountLine == [f \in DiscountForms |-> Chars("6 Apples, " \o f.text \o "$1.00")]

DiscountLines ==
    {DiscountLine[f] : f \in DiscountForms}
        \cup {Chars("6 Apples, /$1.00"), Chars("6 Apples, x/$1.00")}

\* lines "<count><space><token><period><gap>Rice, $1.00"; a period and a
\* gap come only after a token
CountForms ==
    {f \in [count : {"2", "1.5"},
            space : {" ", ""},
            token : {"lbs", "lb", "oz", "g", "kg", ""},
            period : {".", ""},
            gap : {" ", ""}] :
        f.token = "" => f.period = "" /\ f.gap = ""}

CountLine ==
    [f \in CountForms |->
        Chars(f.count \o f.space \o f.token \o f.period \o f.gap
              \o "Rice, $1.00")]

CountLines ==
    {CountLine[f] : f \in CountForms} \cup {Chars("2 grapes, $1.00")}

\* lines with a count of zero before the price or before its unit
ZeroPerUnitLines ==
    {Chars("Apples, 0/$1.00"), Chars("0 Apples, 0/$1.00"),
     Chars("2 lb. Beef, $5.99/0 lb"), Chars("Beef, $5.99/0 lb")}

\* lines "3 <name>, $1.00" for names of letters and single inner spaces,
\* those that begin with the letters of a unit and those that do not
UnitLetterNames == {"grapes", "lbs of flour", "lb of flour", "ozark ham",
                    "kg bag", "g", "garlic bread"}
PlainNames == {"Apples", "Ozark ham", "eggs", "Ground Beef", "a b", "bag kg",
               "Lbs of flour", "k g"}
NameLine == [W \in UnitLetterNames \cup PlainNames |->
                Chars("3 " \o W \o ", $1.00")]
NameLines == {NameLine[W] : W \in UnitLetterNames \cup PlainNames}

\* "12" and the two bytes of a letter with an accent before " Apples, $1.00"
AccentAfterDigitsLine ==
    Chars("12") \o <<"<C3>", "<A9>">> \o Chars(" Apples, $1.00")

\* lines that begin with digits that are not a well-formed number
DigitTextLines ==
    {Chars("1.2.3 Apples, $1.00"), Chars("1.2.3 Apples, $1.00/lb"),
     Chars("1..5 Apples, $1.00"), Chars("1.2.3 lb. Beef, $5.99/2 lb"),
     AccentAfterDigitsLine}

Files ==
    {<<l>> : l \in Lines \cup FormLines \cup NamelessLines \cup StepLines
                 \cup PriceLines \cup PerUnitLines \cup DiscountLines
                 \cup CountLines \cup ZeroPerUnitLines \cup NameLines
                 \cup DigitTextLines}
        \cup SeqsUpTo(BatchLines, MaxLines)

\* k halves, the double k / 2
Halves(k) == DDiv(DFromInt(k), DFromInt(2))

\* the items main prices: a count of a quantity is whole
PricedCounts == {Halves(k) : k \in 0..MaxHalfPounds} \cup {DFromInt(32)}
PricedItems ==
    {i \in [name : {Chars("Ground Beef")},
            priceCentsPerUnit : {400, 599, 600},
            count : PricedCounts,
            countType : CountType,
            perUnitCount : 1..MaxPerUnitCount,
            perUnitCountType : CountType] :
        i.countType = "CountType::Quantity" => isWhole(i.count)}

\* the weights under conversion
Weights ==
    {DFromInt(n) : n \in {0, 1, 3, 16, 48, 1000, 1001, 3000}}
        \cup {Halves(3)}

\* the weights displayWeight is given, as the decimals they are read from
DisplayedDecimals ==
    {"0", "3", "0.5", "12.6", "12.4", "12.5", "1.25", "1.45", "2.675", "0.05",
     "0.004", "7.35", "0.45359237", "3.3069339327732"}
DisplayedWeights ==
    {stringToDouble(View(Chars(decimal))).value : decimal \in DisplayedDecimals}

\* the prices calculateConvertedPerUnit is given
DisplayedPrices == {0, 100, 400, 599}

(***************************************************************************)
(* main.cpp: main and readShoppingListFromFile.                            *)
(***************************************************************************)
Init ==
    /\ pc = "read"
    /\ file \in Files
    /\ lineNo = 1
    /\ shoppingListItems = << >>
    /\ stderr = << >>
    /\ itemNo = 1
    /\ itemTotals = << >>
    /\ totalPriceCents = 0
    /\ curWeight = DZero
    /\ curUnit = "Unit::Pound"
    /\ conversions = << >>
    /\ enumTrace = << >>
    /\ displayCalls = << >>

\* the try block of the loop: the item pushed, or the message printed for
\* the line, kept here under the number of the line
PushItemOrReport(parsed) ==
    IF parsed.err = NoError
    THEN /\ shoppingListItems' = Append(shoppingListItems, parsed.item)
         /\ UNCHANGED stderr
    ELSE /\ stderr' = Append(stderr, <<lineNo, parsed.err>>)
         /\ UNCHANGED shoppingListItems

\* one turn of the loop, a line that fails to parse ending the batch
ReadLineStoppedByFailure ==
    /\ pc = "read"
    /\ lineNo <= Len(file)
    /\ IF file[lineNo] = << >> \/ startsWith(View(file[lineNo]), Chars("//"))
       THEN /\ lineNo' = lineNo + 1
            /\ UNCHANGED <<shoppingListItems, stderr>>
       ELSE /\ PushItemOrReport(parseShoppingListItemStr(file[lineNo]))
            /\ lineNo' = IF stderr' = stderr THEN lineNo + 1
                         ELSE Len(file) + 1
    /\ UNCHANGED <<pc, file, itemNo, itemTotals, totalPriceCents>>
    /\ UNCHANGED unitVars

\* one turn of the loop of readShoppingListFromFile
ReadLine ==
    /\ pc = "read"
    /\ lineNo <= Len(file)
    /\ IF file[lineNo] = << >> \/ startsWith(View(file[lineNo]), Chars("//"))
       THEN UNCHANGED <<shoppingListItems, stderr>>
       ELSE PushItemOrReport(parseShoppingListItemStr(file[lineNo]))
    /\ lineNo' = lineNo + 1
    /\ UNCHANGED <<pc, file, itemNo, itemTotals, totalPriceCents>>
    /\ UNCHANGED unitVars

\* readShoppingListFromFile returns at the end of the file
ReturnItems ==
    /\ pc = "read"
    /\ lineNo > Len(file)
    /\ pc' = "total"
    /\ UNCHANGED <<file, lineNo, shoppingListItems, stderr, itemNo, itemTotals,
                   totalPriceCents>>
    /\ UNCHANGED unitVars

\* the total of the item added, or the exception leaving main
AddToTotal(itemTotalPriceCents) ==
    IF itemTotalPriceCents.err = NoError
    THEN /\ itemTotals' = Append(itemTotals, itemTotalPriceCents.value)
         /\ totalPriceCents' = totalPriceCents + itemTotalPriceCents.value
         /\ itemNo' = itemNo + 1
         /\ UNCHANGED pc
    ELSE /\ pc' = "terminated"
         /\ UNCHANGED <<itemTotals, totalPriceCents, itemNo>>

\* getShoppingListItemTotalPrice divides by the perUnitCount of the item,
\* which is zero: the ratio is infinite or not a number, and so is the
\* double that priceCents *= ratio converts to int64_t
DividesByZero(shoppingListItem) ==
    /\ shoppingListItem.perUnitCount = 0
    /\ IF \/ shoppingListItem.perUnitCountType = "CountType::Quantity"
          \/ shoppingListItem.countType = "CountType::Quantity"
       THEN shoppingListItem.perUnitCountType = "CountType::Quantity"
       ELSE /\ convertCountTypeToUnit(shoppingListItem.countType).has_value
            /\ convertCountTypeToUnit(
                   shoppingListItem.perUnitCountType).has_value

\* the conversion to int64_t of a double that is infinite or not a number
\* is undefined, as it is of a NaN in calculateConvertedPerUnit
AddUndefinedTotal ==
    \E undefined \in NaNAsInt64 :
        AddToTotal([err |-> NoError, value |-> undefined])

\* one turn of the loop of main over the items
AddItemTotal ==
    /\ pc = "total"
    /\ itemNo <= Len(shoppingListItems)
    /\ IF DividesByZero(shoppingListItems[itemNo])
       THEN AddUndefinedTotal
       ELSE AddToTotal(
                getShoppingListItemTotalPrice(shoppingListItems[itemNo]))
    /\ UNCHANGED <<file, lineNo, shoppingListItems, stderr>>
    /\ UNCHANGED unitVars

\* main prints the total and returns
Finish ==
    /\ pc = "total"
    /\ itemNo > Len(shoppingListItems)
    /\ pc' = "done"
    /\ UNCHANGED <<file, lineNo, shoppingListItems, stderr, itemNo, itemTotals,
                   totalPriceCents>>
    /\ UNCHANGED unitVars

Next == ReadLine \/ ReturnItems \/ AddItemTotal \/ Finish

Spec == Init /\ [][Next]_vars

(***************************************************************************)
(* main pricing the items of a list readShoppingListFromFile returned.     *)
(***************************************************************************)
InitPrice ==
    /\ pc = "total"
    /\ file = << >>
    /\ lineNo = 1
    /\ shoppingListItems \in {<<i>> : i \in PricedItems}
    /\ stderr = << >>
    /\ itemNo = 1
    /\ itemTotals = << >>
    /\ totalPriceCents = 0
    /\ curWeight = DZero
    /\ curUnit = "Unit::Pound"
    /\ conversions = << >>
    /\ enumTrace = << >>
    /\ displayCalls = << >>

NextPrice == AddItemTotal \/ Finish

SpecPrice == InitPrice /\ [][NextPrice]_vars

(***************************************************************************)
(* unit.cpp: a caller of the conversions between CountType and Unit.       *)
(***************************************************************************)
InitUnit ==
    /\ pc = "unit"
    /\ file = << >>
    /\ lineNo = 1
    /\ shoppingListItems = << >>
    /\ stderr = << >>
    /\ itemNo = 1
    /\ itemTotals = << >>
    /\ totalPriceCents = 0
    /\ curWeight = DZero
    /\ curUnit = "Unit::Pound"
    /\ conversions = << >>
    /\ enumTrace = << >>
    /\ displayCalls = << >>

CallConvertCountTypeToUnit ==
    /\ pc = "unit"
    /\ Len(enumTrace) < MaxEnumSteps
    /\ \E countType \in CountType :
           enumTrace' = Append(enumTrace,
                               [fn |-> "convertCountTypeToUnit",
                                arg |-> countType,
                                result |-> convertCountTypeToUnit(countType)])
    /\ UNCHANGED <<curWeight, curUnit, conversions, displayCalls>>
    /\ UNCHANGED progVars

CallConvertUnitToCountType ==
    /\ pc = "unit"
    /\ Len(enumTrace) < MaxEnumSteps
    /\ \E unit \in Unit :
           enumTrace' = Append(enumTrace,
                               [fn |-> "convertUnitToCountType",
                                arg |-> unit,
                                result |-> convertUnitToCountType(unit)])
    /\ UNCHANGED <<curWeight, curUnit, conversions, displayCalls>>
    /\ UNCHANGED progVars

NextUnit == CallConvertCountTypeToUnit \/ CallConvertUnitToCountType

SpecUnit == InitUnit /\ [][NextUnit]_vars

(***************************************************************************)
(* unit.cpp: a caller of convertWeight, converting a weight again and      *)
(* again.                                                                  *)
(***************************************************************************)
InitWeight ==
    /\ pc = "weight"
    /\ file = << >>
    /\ lineNo = 1
    /\ shoppingListItems = << >>
    /\ stderr = << >>
    /\ itemNo = 1
    /\ itemTotals = << >>
    /\ totalPriceCents = 0
    /\ curWeight \in Weights
    /\ curUnit \in Unit
    /\ conversions = << >>
    /\ enumTrace = << >>
    /\ displayCalls = << >>

CallConvertWeight ==
    /\ pc = "weight"
    /\ Len(conversions) < MaxConversions
    /\ \E to \in Unit :
           /\ curWeight' = convertWeight(curWeight, curUnit, to)
           /\ curUnit' = to
           /\ conversions' = Append(conversions,
                                    [weight |-> curWeight, from |-> curUnit,
                                     to |-> to])
    /\ UNCHANGED <<enumTrace, displayCalls>>
    /\ UNCHANGED progVars

NextWeight == CallConvertWeight

SpecWeight == InitWeight /\ [][NextWeight]_vars

(***************************************************************************)
(* display.cpp: a caller of displayWeight and calculateConvertedPerUnit.   *)
(***************************************************************************)
InitDisplay ==
    /\ pc = "display"
    /\ file = << >>
    /\ lineNo = 1
    /\ shoppingListItems = << >>
    /\ stderr = << >>
    /\ itemNo = 1
    /\ itemTotals = << >>
    /\ totalPriceCents = 0
    /\ curWeight = DZero
    /\ curUnit = "Unit::Pound"
    /\ conversions = << >>
    /\ enumTrace = << >>
    /\ displayCalls = << >>

CallDisplayWeight ==
    /\ pc = "display"
    /\ Len(displayCalls) < MaxDisplayCalls
    /\ \E weight \in DisplayedWeights, unit \in Unit :
           displayCalls' = Append(displayCalls,
                                  [fn |-> "displayWeight", weight |-> weight,
                                   unit |-> unit,
                                   result |-> displayWeight(weight, unit)])
    /\ UNCHANGED <<curWeight, curUnit, conversions, enumTrace>>
    /\ UNCHANGED progVars

CallCalculateConvertedPerUnit ==
    /\ pc = "display"
    /\ Len(displayCalls) < MaxDisplayCalls
    /\ \E perUnitCount \in 0..MaxPerUnitCount, unit \in Unit,
          priceCentsPerUnit \in DisplayedPrices, preferredUnit \in Unit :
           \E result \in calculateConvertedPerUnit(perUnitCount, unit,
                                                   priceCentsPerUnit,
                                                   preferredUnit) :
              displayCalls' = Append(displayCalls,
                                     [fn |-> "calculateConvertedPerUnit",
                                      perUnitCount |-> perUnitCount,
                                      unit |-> unit,
                                      priceCentsPerUnit |-> priceCentsPerUnit,
                                      preferredUnit |-> preferredUnit,
                                      result |-> result])
    /\ UNCHANGED <<curWeight, curUnit, conversions, enumTrace>>
    /\ UNCHANGED progVars

NextDisplay == CallDisplayWeight \/ CallCalculateConvertedPerUnit

SpecDisplay == InitDisplay /\ [][NextDisplay]_vars

(***************************************************************************)
(* The scenarios of the parser and of the total price, on a file of one    *)
(* line.                                                                   *)
(***************************************************************************)
\* the line of the file has been read
LineRead(line) == file = <<line>> /\ lineNo > 1

\* the line of the file has been read and its item priced
LinePriced(line) == file = <<line>> /\ itemNo > 1

Item(name, priceCentsPerUnit, count, countType, perUnitCount, perUnitCountType) ==
    [name |-> Chars(name), priceCentsPerUnit |-> priceCentsPerUnit,
     count |-> DFromInt(count), countType |-> countType,
     perUnitCount |-> perUnitCount, perUnitCountType |-> perUnitCountType]

\* the count type a word for a unit of weight stands for
CountTypeOfWord(word) ==
    CASE word = "lb" -> "CountType::Pound"
      [] word = "lbs" -> "CountType::Pound"
      [] word = "oz" -> "CountType::Ounce"
      [] word = "kg" -> "CountType::Kilogram"

ChickenBreastsLine == Chars("1 lb. Chicken Breasts, $4.99")

\* C1: the line "1 lb. Chicken Breasts, $4.99" parses to the item named
\* Chicken Breasts with count 1, countType Pound, perUnitCount 1,
\* perUnitCountType Quantity and priceCentsPerUnit 499, whose total price is
\* 499; and every line "<whole N> <lb|lbs|oz|kg>. <Name>, $<D>.<CC>" parses
\* to an item with the countType of that unit, perUnitCountType Quantity,
\* perUnitCount 1 and the name <Name>.
WeightCountLineParsed ==
    /\ LineRead(ChickenBreastsLine) =>
          /\ stderr = << >>
          /\ shoppingListItems =
                <<Item("Chicken Breasts", 499, 1, "CountType::Pound", 1,
                       "CountType::Quantity")>>
    /\ LinePriced(ChickenBreastsLine) =>
          itemTotals = <<499>> /\ totalPriceCents = 499
    /\ \A f \in WeightForms :
          LineRead(FormLine(f)) =>
             /\ stderr = << >>
             /\ Len(shoppingListItems) = 1
             /\ shoppingListItems[1].countType = CountTypeOfWord(f.unit)
             /\ shoppingListItems[1].perUnitCountType = "CountType::Quantity"
             /\ shoppingListItems[1].perUnitCount = 1
             /\ shoppingListItems[1].name = Chars(f.name)

\* the Chicken Breasts line read, parsed and priced 499
WeightCountLinePriced ==
    /\ pc = "done"
    /\ file = <<ChickenBreastsLine>>
    /\ Len(shoppingListItems) = 1
    /\ shoppingListItems[1].countType = "CountType::Pound"
    /\ totalPriceCents = 499

GroundBeefPerPoundLine == Chars("Ground Beef, $5.99/lb")
GroundBeefPerTwoPoundsLine == Chars("Ground Beef, $5.99/2 lb")

\* C2, as claimed: the line "Ground Beef, $5.99/lb" parses to an item with
\* the defaulted count 1, countType Quantity, perUnitCountType Pound,
\* perUnitCount 1 and priceCentsPerUnit 599, whose total price is 599.
PerPoundLineDefaultsCount ==
    /\ LineRead(GroundBeefPerPoundLine) =>
          /\ stderr = << >>
          /\ shoppingListItems =
                <<Item("Ground Beef", 599, 1, "CountType::Quantity", 1,
                       "CountType::Pound")>>
    /\ LinePriced(GroundBeefPerPoundLine) => itemTotals = <<599>>

\* C2, amended: the line "Ground Beef, $5.99/lb" fails with "Expected string
\* to start with a number" and gives no item, the price being per one unit of
\* weight; the count defaults to 1 only when the price is per quantity or per
\* a count other than 1, as in "Ground Beef, $5.99/2 lb", which parses to
\* count 1, countType Quantity, perUnitCountType Pound, perUnitCount 2 and
\* priceCentsPerUnit 599, with the total price 599.
PerPoundLineNeedsCount ==
    /\ LineRead(GroundBeefPerPoundLine) =>
          /\ stderr = <<<<1, ErrStartNumber>>>>
          /\ shoppingListItems = << >>
    /\ LineRead(GroundBeefPerTwoPoundsLine) =>
          /\ stderr = << >>
          /\ shoppingListItems =
                <<Item("Ground Beef", 599, 1, "CountType::Quantity", 2,
                       "CountType::Pound")>>
    /\ LinePriced(GroundBeefPerTwoPoundsLine) => itemTotals = <<599>>

\* the per-pound line read and reported as failed, no item returned
PerPoundLineRejected ==
    /\ pc = "done"
    /\ file = <<GroundBeefPerPoundLine>>
    /\ stderr = <<<<1, ErrStartNumber>>>>
    /\ shoppingListItems = << >>

GroundBeefTwoPoundsLine == Chars("2 lb. Ground Beef, $5.99/2 lb")

\* C3: the line "2 lb. Ground Beef, $5.99/2 lb" parses to the item named
\* Ground Beef with count 2, countType Pound, perUnitCount 2,
\* perUnitCountType Pound and priceCentsPerUnit 599, whose total price is
\* 599.
WeightPerWeightLineParsed ==
    /\ LineRead(GroundBeefTwoPoundsLine) =>
          /\ stderr = << >>
          /\ shoppingListItems =
                <<Item("Ground Beef", 599, 2, "CountType::Pound", 2,
                       "CountType::Pound")>>
    /\ LinePriced(GroundBeefTwoPoundsLine) =>
          itemTotals = <<599>> /\ totalPriceCents = 599

\* the two pounds of Ground Beef read, parsed and priced 599
WeightPerWeightLinePriced ==
    /\ pc = "done"
    /\ file = <<GroundBeefTwoPoundsLine>>
    /\ Len(shoppingListItems) = 1
    /\ shoppingListItems[1].perUnitCount = 2
    /\ totalPriceCents = 599

ApplesLine == Chars("3 Apples, $1.00")

\* C4: the line "3 Apples, $1.00" parses to the item named Apples with count
\* 3, countType Quantity, perUnitCount 1, perUnitCountType Quantity and
\* priceCentsPerUnit 100, whose total price is 300.
QuantityLineParsed ==
    /\ LineRead(ApplesLine) =>
          /\ stderr = << >>
          /\ shoppingListItems =
                <<Item("Apples", 100, 3, "CountType::Quantity", 1,
                       "CountType::Quantity")>>
    /\ LinePriced(ApplesLine) =>
          itemTotals = <<300>> /\ totalPriceCents = 300

\* the three Apples read, parsed and priced 300
QuantityLinePriced ==
    /\ pc = "done"
    /\ file = <<ApplesLine>>
    /\ Len(shoppingListItems) = 1
    /\ shoppingListItems[1].countType = "CountType::Quantity"
    /\ totalPriceCents = 300

(***************************************************************************)
(* The batch: lines that fail and lines that are skipped.                  *)
(***************************************************************************)
\* readShoppingListFromFile hands the line to parseShoppingListItemStr
IsItemLine(line) == line # << >> /\ ~startsWith(View(line), Chars("//"))

\* the price, its "$", the count of a quantity price and one space come off
\* the back of the line, and what is left does not end with ","
LacksComma(line) ==
    LET tail == ParsePriceTail(line)
    IN  tail.err = NoError /\ ~endsWith(tail.sView, Chars(","))

\* the lines read so far that were handed to the parser
ItemLinesRead == {i \in 1..(lineNo - 1) : IsItemLine(file[i])}

MissingCommaLine == Chars("Chicken Breasts $4.99")

\* C5: a line whose text before the price does not end with "," fails with
\* "Expected comma before price" and gives no item; the line
\* "Chicken Breasts $4.99" fails so.
MissingCommaRejected ==
    /\ \A i \in ItemLinesRead :
          LacksComma(file[i]) =>
             \E k \in 1..Len(stderr) : stderr[k] = <<i, ErrComma>>
    /\ Len(shoppingListItems) + Len(stderr) = Cardinality(ItemLinesRead)
    /\ LineRead(MissingCommaLine) =>
          stderr = <<<<1, ErrComma>>>> /\ shoppingListItems = << >>

\* the line without its comma read and reported, no item returned
MissingCommaReported ==
    /\ pc = "done"
    /\ file = <<MissingCommaLine>>
    /\ stderr = <<<<1, ErrComma>>>>
    /\ shoppingListItems = << >>

\* the items of the first n lines, each line parsed on its own
RECURSIVE ItemsOfLines(_, _)
ItemsOfLines(lines, n) ==
    IF n = 0 THEN << >>
    ELSE LET parsed == parseShoppingListItemStr(lines[n])
         IN  IF IsItemLine(lines[n]) /\ parsed.err = NoError
             THEN Append(ItemsOfLines(lines, n - 1), parsed.item)
             ELSE ItemsOfLines(lines, n - 1)

\* C6: the list readShoppingListFromFile builds is, in the order of the
\* lines, the items of the lines that are not empty, do not start with "//"
\* and parse; a line that fails gives no item, does not end the batch and
\* leaves the items of the lines before and after it as they are.
BatchKeepsParsedLines ==
    /\ shoppingListItems = ItemsOfLines(file, lineNo - 1)
    /\ pc # "read" => lineNo = Len(file) + 1
    /\ \A k \in 1..Len(stderr) : stderr[k][1] \in ItemLinesRead

\* a file of three lines read to its end, the second line failed, the first
\* and the third returned
BatchWithFailedLine ==
    /\ pc = "done"
    /\ Len(file) = 3
    /\ Len(stderr) = 1
    /\ stderr[1][1] = 2
    /\ Len(shoppingListItems) = 2
    /\ shoppingListItems[1] = parseShoppingListItemStr(file[1]).item
    /\ shoppingListItems[2] = parseShoppingListItemStr(file[3]).item

(***************************************************************************)
(* The total price of an item.                                             *)
(***************************************************************************)
IsQuantityPriced(item) ==
    \/ item.countType = "CountType::Quantity"
    \/ item.perUnitCountType = "CountType::Quantity"

\* priceCents times a double, truncated to whole cents
PriceTimes(priceCents, x) == DTrunc(DMul(DFromInt(priceCents), x))

PricedItem(priceCentsPerUnit, count, countType, perUnitCount, perUnitCountType) ==
    [name |-> Chars("Ground Beef"), priceCentsPerUnit |-> priceCentsPerUnit,
     count |-> count, countType |-> countType,
     perUnitCount |-> perUnitCount, perUnitCountType |-> perUnitCountType]

\* C7, as claimed: the total price of an item with countType or
\* perUnitCountType Quantity is priceCentsPerUnit * (count / perUnitCount)
\* when perUnitCountType is Quantity and perUnitCount is not 1, and
\* priceCentsPerUnit * count otherwise, truncated to whole cents, for the
\* count as it is, fractional counts included.
QuantityTotalKeepsFraction ==
    \A k \in 1..Len(itemTotals) :
       LET item == shoppingListItems[k]
       IN  IsQuantityPriced(item) =>
              itemTotals[k] =
                 IF /\ item.perUnitCountType = "CountType::Quantity"
                    /\ item.perUnitCount # 1
                 THEN PriceTimes(item.priceCentsPerUnit,
                                 DDiv(item.count, DFromInt(item.perUnitCount)))
                 ELSE PriceTimes(item.priceCentsPerUnit, item.count)

\* twice a count of whole halves
TwiceCount(count) == DTrunc(DMul(count, DFromInt(2)))

\* C8: the total price of an item whose countType and perUnitCountType are
\* both units of weight is priceCentsPerUnit * (convertWeight(count, unit of
\* countType, unit of perUnitCountType) / perUnitCount), truncated to whole
\* cents, for the count as it is: 32 oz at 599 per 1 lb is 1198, 1.5 lb at
\* 600 per 1 lb is 900.
WeightTotalConvertsCount ==
    /\ \A k \in 1..Len(itemTotals) :
          LET item == shoppingListItems[k]
              weight ==
                  convertWeight(item.count,
                                convertCountTypeToUnit(item.countType).value,
                                convertCountTypeToUnit(
                                    item.perUnitCountType).value)
          IN  ~IsQuantityPriced(item) =>
                 /\ itemTotals[k] =
                       PriceTimes(item.priceCentsPerUnit,
                                  DDiv(weight, DFromInt(item.perUnitCount)))
                 /\ (/\ item.countType = item.perUnitCountType
                     /\ item.perUnitCount = 1) =>
                       itemTotals[k] =
                          (item.priceCentsPerUnit * TwiceCount(item.count))
                              \div 2
    /\ (/\ itemNo > 1
        /\ shoppingListItems =
              <<PricedItem(599, DFromInt(32), "CountType::Ounce", 1,
                           "CountType::Pound")>>) =>
          itemTotals = <<1198>>
    /\ (/\ itemNo > 1
        /\ shoppingListItems =
              <<PricedItem(600, Halves(3), "CountType::Pound", 1,
                           "CountType::Pound")>>) =>
          itemTotals = <<900>>

\* a pound and a half at 600 per pound priced 900
FractionalWeightPriced ==
    /\ pc = "done"
    /\ shoppingListItems =
          <<PricedItem(600, Halves(3), "CountType::Pound", 1,
                       "CountType::Pound")>>
    /\ totalPriceCents = 900

(***************************************************************************)
(* The conversions of the unit model.                                      *)
(***************************************************************************)
\* C9: convertUnitToCountType(convertCountTypeToUnit(c)) = c for the four
\* count types of weight, convertCountTypeToUnit(convertUnitToCountType(u))
\* = u for every Unit u, and convertCountTypeToUnit(Quantity) is empty.
CountTypeUnitRoundTrip ==
    \A i, j \in 1..Len(enumTrace) :
       LET a == enumTrace[i]
           b == enumTrace[j]
       IN  /\ a.fn = "convertCountTypeToUnit" =>
                 a.result.has_value = (a.arg # "CountType::Quantity")
           /\ (/\ a.fn = "convertCountTypeToUnit"
               /\ b.fn = "convertUnitToCountType"
               /\ a.result.has_value
               /\ b.arg = a.result.value) => b.result = a.arg
           /\ (/\ a.fn = "convertUnitToCountType"
               /\ b.fn = "convertCountTypeToUnit"
               /\ b.arg = a.result) =>
                 b.result.has_value /\ b.result.value = a.arg

\* Kilogram converted to its Unit and back
KilogramRoundTrip ==
    /\ Len(enumTrace) >= 2
    /\ enumTrace[1] = [fn |-> "convertCountTypeToUnit",
                       arg |-> "CountType::Kilogram",
                       result |-> Some("Unit::Kilogram")]
    /\ enumTrace[2] = [fn |-> "convertUnitToCountType",
                       arg |-> "Unit::Kilogram",
                       result |-> "CountType::Kilogram"]

\* what the k-th conversion returned
Converted(k) ==
    IF k < Len(conversions) THEN conversions[k + 1].weight ELSE curWeight

\* the k-th conversion goes from unit from to unit to
Goes(k, from, to) == conversions[k].from = from /\ conversions[k].to = to

\* the k-th conversion and the next go from unit from to unit to and back
GoesAndBack(k, from, to) ==
    k < Len(conversions) /\ Goes(k, from, to) /\ Goes(k + 1, to, from)

\* convertWeight(w, u, u) is w, and between the units of one system the
\* weight is multiplied or divided by 16 or by 1000
SameSystemFactors ==
    \A k \in 1..Len(conversions) :
       LET w == conversions[k].weight
       IN  /\ conversions[k].from = conversions[k].to => Converted(k) = w
           /\ Goes(k, "Unit::Pound", "Unit::Ounce") =>
                 /\ Converted(k) = DMul(w, DFromInt(16))
                 /\ isWhole(w) => Converted(k) = DFromInt(16 * DTrunc(w))
           /\ Goes(k, "Unit::Ounce", "Unit::Pound") =>
                 /\ Converted(k) = DDiv(w, DFromInt(16))
                 /\ (isWhole(w) /\ DTrunc(w) % 16 = 0) =>
                       Converted(k) = DFromInt(DTrunc(w) \div 16)
           /\ Goes(k, "Unit::Kilogram", "Unit::Gram") =>
                 /\ Converted(k) = DMul(w, DFromInt(1000))
                 /\ isWhole(w) => Converted(k) = DFromInt(1000 * DTrunc(w))
           /\ Goes(k, "Unit::Gram", "Unit::Kilogram") =>
                 /\ Converted(k) = DDiv(w, DFromInt(1000))
                 /\ (isWhole(w) /\ DTrunc(w) % 1000 = 0) =>
                       Converted(k) = DFromInt(DTrunc(w) \div 1000)

\* a whole weight converted from unit from to unit to and back is the weight
\* it was
ThereAndBack(from, to) ==
    \A k \in 1..Len(conversions) :
       (GoesAndBack(k, from, to) /\ isWhole(conversions[k].weight)) =>
          Converted(k + 1) = conversions[k].weight

\* C10, as claimed: convertWeight(w, u, u) is w; Pound to Ounce multiplies by
\* 16, Ounce to Pound divides by 16, Kilogram to Gram multiplies by 1000,
\* Gram to Kilogram divides by 1000; and a whole weight converted there and
\* back, either way, is the weight it was.
SameSystemRoundTripExact ==
    /\ SameSystemFactors
    /\ ThereAndBack("Unit::Pound", "Unit::Ounce")
    /\ ThereAndBack("Unit::Ounce", "Unit::Pound")
    /\ ThereAndBack("Unit::Kilogram", "Unit::Gram")
    /\ ThereAndBack("Unit::Gram", "Unit::Kilogram")

\* C10, amended: convertWeight(w, u, u) is w; Pound to Ounce multiplies by
\* 16, Ounce to Pound divides by 16, Kilogram to Gram multiplies by 1000,
\* Gram to Kilogram divides by 1000, each result rounded to a double; a whole
\* weight converted there and back is the weight it was between Pound and
\* Ounce, either way, and from Kilogram to Gram and back, but not always
\* from Gram to Kilogram and back: 1001 g comes back as another weight.
SameSystemRoundTripRounded ==
    /\ SameSystemFactors
    /\ ThereAndBack("Unit::Pound", "Unit::Ounce")
    /\ ThereAndBack("Unit::Ounce", "Unit::Pound")
    /\ ThereAndBack("Unit::Kilogram", "Unit::Gram")
    /\ \A k \in 1..Len(conversions) :
          (/\ GoesAndBack(k, "Unit::Gram", "Unit::Kilogram")
           /\ conversions[k].weight = DFromInt(1001)) =>
             Converted(k + 1) # DFromInt(1001)

\* 1001 kg converted to Gram and back to Kilogram, 1001 again
KilogramsThereAndBack ==
    /\ Len(conversions) = 2
    /\ conversions[1] = [weight |-> DFromInt(1001), from |-> "Unit::Kilogram",
                         to |-> "Unit::Gram"]
    /\ conversions[2].weight = DFromInt(1001000)
    /\ curUnit = "Unit::Kilogram"
    /\ curWeight = DFromInt(1001)

(***************************************************************************)
(* The display conversions.                                                *)
(***************************************************************************)
\* the calls of fn made so far
CallsOf(fn) == {i \in 1..Len(displayCalls) : displayCalls[i].fn = fn}

\* the sign of p * d - num, exactly, for naturals p and num and a double d
ProductCmp(p, d, num) ==
    IF d.e >= 0
    THEN BigCmp(BigShl(BigMul(BigFromInt(p), d.m), d.e), BigFromInt(num))
    ELSE BigCmp(BigMul(BigFromInt(p), d.m), BigShl(BigFromInt(num), -d.e))

\* p = trunc(num / d) for a natural num and a double d: p <= num / d < p + 1
IsTruncatedQuotient(p, num, d) ==
    /\ p >= 0
    /\ ProductCmp(p, d, num) <= 0
    /\ ProductCmp(p + 1, d, num) > 0

\* the result the claim gives for a unit of the other system, c the
\* perUnitCount converted to the partner unit
PartnerResultAsClaimed(call, resultUnit, c) ==
    /\ call.result.perUnitUnit = resultUnit
    /\ IF call.perUnitCount > 1
       THEN /\ call.result.perUnitCount = c
            /\ call.result.priceCentsPerUnit = call.priceCentsPerUnit
       ELSE /\ call.result.perUnitCount = DFromInt(call.perUnitCount)
            /\ IsTruncatedQuotient(call.result.priceCentsPerUnit,
                                   call.priceCentsPerUnit * call.perUnitCount,
                                   c)

PerUnitResultAsClaimed(call) ==
    IF getUnitSystem(call.unit) = getUnitSystem(call.preferredUnit)
    THEN call.result = ConvertedPerUnit(DFromInt(call.perUnitCount), call.unit,
                                        call.priceCentsPerUnit)
    ELSE PartnerResultAsClaimed(call,
                                IF call.unit \in {"Unit::Ounce", "Unit::Pound"}
                                THEN "Unit::Kilogram" ELSE "Unit::Pound",
                                convertWeight(DFromInt(call.perUnitCount),
                                              call.unit,
                                              IF call.unit \in
                                                    {"Unit::Ounce", "Unit::Pound"}
                                              THEN "Unit::Kilogram"
                                              ELSE "Unit::Pound"))

\* C11: calculateConvertedPerUnit(perUnitCount, unit, price, preferredUnit)
\* returns (perUnitCount, unit, price) unchanged when unit and preferredUnit
\* are of the same System; otherwise the result unit is Kilogram for Ounce
\* and Pound and Pound for Kilogram and Gram and, with c the perUnitCount
\* converted to it, the result is (c, result unit, price) if
\* perUnitCount > 1 and (perUnitCount, result unit,
\* trunc(price * perUnitCount / c)) if perUnitCount <= 1.
PerUnitConversionAsClaimed ==
    \A i \in CallsOf("calculateConvertedPerUnit") :
       PerUnitResultAsClaimed(displayCalls[i])

\* C11, but for a perUnitCount of 0 converted to the other system: the
\* results are as the claim gives them for every perUnitCount of 1 or more
PerUnitConversionOfPositiveCount ==
    \A i \in CallsOf("calculateConvertedPerUnit") :
       \/ /\ displayCalls[i].perUnitCount = 0
          /\ getUnitSystem(displayCalls[i].unit) #
                getUnitSystem(displayCalls[i].preferredUnit)
       \/ PerUnitResultAsClaimed(displayCalls[i])

\* a price per 0 pounds has been converted for a display in kilograms
ZeroPerUnitCountConverted ==
    \E i \in CallsOf("calculateConvertedPerUnit") :
       /\ displayCalls[i].perUnitCount = 0
       /\ displayCalls[i].unit = "Unit::Pound"
       /\ displayCalls[i].preferredUnit = "Unit::Kilogram"
       /\ displayCalls[i].priceCentsPerUnit = 599

\* a price per pound has been converted to a price per kilogram
PricePerPoundConverted ==
    \E i \in CallsOf("calculateConvertedPerUnit") :
       /\ displayCalls[i].perUnitCount = 1
       /\ displayCalls[i].unit = "Unit::Pound"
       /\ displayCalls[i].preferredUnit = "Unit::Gram"
       /\ displayCalls[i].priceCentsPerUnit = 599
       /\ displayCalls[i].result.perUnitUnit = "Unit::Kilogram"
       /\ displayCalls[i].result.priceCentsPerUnit = 1320

\* the integers at a distance of 1/2 or less from the double d
NearestIntegers(d) ==
    {k \in {DTrunc(d), DTrunc(d) + 1} :
        /\ k = 0 \/ ProductCmp(2, d, (2 * k) - 1) >= 0
        /\ ProductCmp(2, d, (2 * k) + 1) <= 0}

\* the number of multiples in one unit: 10 for a multiple of 0.1
MultiplesPerUnit(unit) ==
    CASE unit = "Unit::Ounce" -> 10
      [] unit = "Unit::Pound" -> 100
      [] unit = "Unit::Kilogram" -> 100
      [] unit = "Unit::Gram" -> 1

\* result is the multiple k / scale of 1 / scale, k an integer nearest to
\* weight * scale
IsNearestMultiple(result, weight, scale) ==
    \E k \in NearestIntegers(DMul(weight, DFromInt(scale))) :
       result = DDiv(DFromInt(k), DFromInt(scale))

TwelvePointSix == stringToDouble(View(Chars("12.6"))).value

\* C12: displayWeight(weight, unit) returns weight unchanged when weight is
\* a whole number, for every unit; otherwise it returns weight rounded to
\* the nearest multiple of 0.1 for Ounce, of 0.01 for Pound and Kilogram
\* and of 1 for Gram, so that 12.6 g gives 13.
DisplayWeightRounded ==
    \A i \in CallsOf("displayWeight") :
       /\ isWhole(displayCalls[i].weight) =>
             displayCalls[i].result = displayCalls[i].weight
       /\ ~isWhole(displayCalls[i].weight) =>
             IsNearestMultiple(displayCalls[i].result, displayCalls[i].weight,
                               MultiplesPerUnit(displayCalls[i].unit))
       /\ (/\ displayCalls[i].weight = TwelvePointSix
           /\ displayCalls[i].unit = "Unit::Gram") =>
             displayCalls[i].result = DFromInt(13)

\* 12.6 g has been displayed as 13
TwelvePointSixGramsDisplayed ==
    \E i \in CallsOf("displayWeight") :
       /\ displayCalls[i].weight = TwelvePointSix
       /\ ~isWhole(displayCalls[i].weight)
       /\ displayCalls[i].unit = "Unit::Gram"
       /\ displayCalls[i].result = DFromInt(13)

(***************************************************************************)
(* The steps of the parser.                                                *)
(***************************************************************************)
\* C13: every item a successful parseShoppingListItemStr returns has a name
\* that is not empty; no line, "3, $1.00" or ", $1.00" for example, parses
\* to an item with the empty name.
ParsedNamesNotEmpty ==
    \A i \in 1..Len(shoppingListItems) : shoppingListItems[i].name # << >>

\* the line "3, $1.00" has been parsed to an item
NamelessLineParsed ==
    /\ LineRead(Chars("3, $1.00"))
    /\ stderr = << >>
    /\ shoppingListItems =
          <<Item("", 100, 3, "CountType::Quantity", 1, "CountType::Quantity")>>

RiceLine == Chars("2 kg Rice, $3.00/kg")

\* C14: when more than one of the tokens "lbs", "lb", "oz", "g", "kg", "ea"
\* matches the end of the line the longest one is consumed: a line ending in
\* "/kg", "2 kg Rice, $3.00/kg" for one, is parsed with the perUnitCountType
\* Kilogram.
LongestTrailingTokenTaken ==
    /\ LineRead(RiceLine) =>
          /\ stderr = << >>
          /\ Len(shoppingListItems) = 1
          /\ shoppingListItems[1].perUnitCountType = "CountType::Kilogram"
    /\ LineRead(Chars("2 lbs Rice, $3.00/lbs")) =>
          /\ stderr = << >>
          /\ Len(shoppingListItems) = 1
          /\ shoppingListItems[1].perUnitCountType = "CountType::Pound"

\* the line ending in "/kg" has been read and rejected for its slash
KilogramPriceLineRejected ==
    /\ LineRead(RiceLine)
    /\ shoppingListItems = << >>
    /\ stderr = <<<<1, ErrSlash>>>>

\* no line is parsed to an item with a price per kilogram
NoPricePerKilogram ==
    \A i \in 1..Len(shoppingListItems) :
       shoppingListItems[i].perUnitCountType # "CountType::Kilogram"

\* whether the view begins with a decimal digit
BeginsWithDigit(sView) ==
    ViewLen(sView) > 0 /\ isdigit(ByteAt(sView.buf, sView.lo))

\* the rule of the claim on the text before the comma, tail what the parser
\* took from the back of the line and text the view before the comma
LeadingNumberRule(tail, text) ==
    IF tail.perUnitCountType = "CountType::Quantity" \/ tail.perUnitCount # 1
    THEN detectDoubleFromFront(text).err # NoError =>
            \/ shoppingListItems = << >> /\ Len(stderr) = 1
            \/ /\ stderr = << >>
               /\ Len(shoppingListItems) = 1
               /\ shoppingListItems[1].count = DFromInt(1)
               /\ shoppingListItems[1].name = ViewText(text)
    ELSE ~BeginsWithDigit(text) =>
            /\ shoppingListItems = << >>
            /\ stderr = <<<<1, ErrStartNumber>>>>

LeadingNumberRuleAfterComma(tail, comma, emptyToo) ==
    (comma.err = NoError /\ (emptyToo \/ ViewLen(comma.sView) > 0)) =>
        LeadingNumberRule(tail, comma.sView)

LeadingNumberRuleAfterTail(tail, emptyToo) ==
    tail.err = NoError =>
        LeadingNumberRuleAfterComma(tail, TrailingComma(tail.sView), emptyToo)

\* C15: with expectsQuantity = (perUnitCountType == Quantity) or
\* (perUnitCount != 1): when expectsQuantity is false and the text before the
\* comma does not begin with a number, the parse fails with "Expected string
\* to start with a number" and no item is returned; when expectsQuantity is
\* true and the leading number is not found, the count is 1 and the failed
\* extraction has consumed nothing of the text.
LeadingNumberRequiredOrDefaulted ==
    (Len(file) = 1 /\ lineNo > 1 /\ IsItemLine(file[1])) =>
        LeadingNumberRuleAfterTail(ParsePriceTail(file[1]), TRUE)

\* C15 for every text before the comma but the empty one
LeadingNumberRuleOnText ==
    (Len(file) = 1 /\ lineNo > 1 /\ IsItemLine(file[1])) =>
        LeadingNumberRuleAfterTail(ParsePriceTail(file[1]), FALSE)

\* the line ", $5.99/lb", with nothing before the comma, has been parsed to
\* an item with the count 0
EmptyTextParsed ==
    /\ LineRead(Chars(", $5.99/lb"))
    /\ stderr = << >>
    /\ shoppingListItems =
          <<Item("", 599, 0, "CountType::Quantity", 1, "CountType::Pound")>>

\* the line has been read and rejected, whatever the message
LineRejected(line) ==
    /\ LineRead(line)
    /\ shoppingListItems = << >>
    /\ Len(stderr) = 1

\* C16: the price is read from the tail as <whole digits>.<fractional
\* digits> with exactly one ".", and priceCentsPerUnit = whole * 100 +
\* fractional ("$4.99" gives 499, "$4.5" gives 405, "$4.999" gives 1399); the
\* parse fails when there is no fractional digit, no whole digit or no "."
\* ("$499"), and it fails with the message about the dollar sign when the
\* character before the whole digits is not "$".
PriceReadFromTail ==
    (Len(file) = 1 /\ lineNo > 1 /\ file[1] \in PriceLines) =>
        /\ \A f \in PriceForms :
              LineRead(PriceLine[f]) =>
                 IF f.dot = "." /\ f.whole[1] # "" /\ f.fractional[1] # ""
                 THEN IF f.lead = "$"
                      THEN /\ stderr = << >>
                           /\ Len(shoppingListItems) = 1
                           /\ shoppingListItems[1].priceCentsPerUnit =
                                 (f.whole[2] * 100) + f.fractional[2]
                      ELSE /\ shoppingListItems = << >>
                           /\ stderr = <<<<1, ErrDollar>>>>
                 ELSE LineRejected(PriceLine[f])
        /\ \A price \in {<<"$4.99", 499>>, <<"$4.5", 405>>, <<"$4.999", 1399>>} :
              LineRead(Chars("3 Apples, " \o price[1])) =>
                 /\ Len(shoppingListItems) = 1
                 /\ shoppingListItems[1].priceCentsPerUnit = price[2]
        /\ LineRead(Chars("3 Apples, $499")) => LineRejected(Chars("3 Apples, $499"))
        /\ LineRead(Chars("3 Apples, $4.9.9")) =>
              LineRejected(Chars("3 Apples, $4.9.9"))
        /\ LineRead(Chars("3 Apples, $4..99")) =>
              LineRejected(Chars("3 Apples, $4..99"))

\* the price "$4.999" has been read as 1399 cents
LongFractionPriceRead ==
    /\ LineRead(Chars("3 Apples, $4.999"))
    /\ stderr = << >>
    /\ Len(shoppingListItems) = 1
    /\ shoppingListItems[1].priceCentsPerUnit = 1399

\* the count type a trailing token stands for
CountTypeOfToken(token) ==
    CASE token = "lbs" -> "CountType::Pound"
      [] token = "lb" -> "CountType::Pound"
      [] token = "oz" -> "CountType::Ounce"
      [] token = "g" -> "CountType::Gram"
      [] token = "kg" -> "CountType::Kilogram"
      [] token = "ea" -> "CountType::Quantity"

\* C17: when a trailing token lbs, lb, oz, g, kg or ea has been recognised,
\* perUnitCount is the value of the run of digits before it, after one
\* optional space, or 1 when there is no digit, and the text before that
\* must end with "/": when it does not, as in "3 Apples, $1.00 ea", the
\* parse fails with "Expected slash before price" and no item is returned.
\* (Of a line ending in "kg" the token recognised is "g", after a "k".)
PerUnitCountBeforeToken ==
    (Len(file) = 1 /\ lineNo > 1 /\ file[1] \in PerUnitLines) =>
        /\ \A f \in PerUnitForms :
              LineRead(PerUnitLine[f]) =>
                 IF f.sep = "/" /\ f.token # "kg"
                 THEN /\ stderr = << >>
                      /\ Len(shoppingListItems) = 1
                      /\ shoppingListItems[1].perUnitCount = f.count[2]
                      /\ shoppingListItems[1].perUnitCountType =
                            CountTypeOfToken(f.token)
                 ELSE /\ shoppingListItems = << >>
                      /\ stderr = <<<<1, ErrSlash>>>>
        /\ LineRead(Chars("3 Apples, $1.00 ea")) =>
              shoppingListItems = << >> /\ stderr = <<<<1, ErrSlash>>>>

\* "3 Apples, $1.00/12 oz" has been parsed to a price per 12 ounces
TwelveOuncesPriceRead ==
    /\ LineRead(Chars("3 Apples, $1.00/12 oz"))
    /\ stderr = << >>
    /\ Len(shoppingListItems) = 1
    /\ shoppingListItems[1].perUnitCount = 12
    /\ shoppingListItems[1].perUnitCountType = "CountType::Ounce"

\* C18: when no trailing token was recognised and the text before "$" ends
\* with "/", the run of digits before the slash is perUnitCount and
\* perUnitCountType is Quantity ("6 Apples, 3/$1.00" gives perUnitCount 3,
\* perUnitCountType Quantity, count 6 and the total price 200); a slash with
\* no digit before it makes the parse fail; with no slash perUnitCount is 1.
QuantityPriceCountRead ==
    (Len(file) = 1 /\ lineNo > 1 /\ file[1] \in DiscountLines) =>
        /\ \A f \in DiscountForms :
              /\ LineRead(DiscountLine[f]) =>
                    /\ stderr = << >>
                    /\ shoppingListItems =
                          <<Item("Apples", 100, 6, "CountType::Quantity",
                                 f.perUnitCount, "CountType::Quantity")>>
              /\ LinePriced(DiscountLine[f]) => itemTotals = <<f.total>>
        /\ LineRead(Chars("6 Apples, /$1.00")) =>
              shoppingListItems = << >> /\ stderr = <<<<1, ErrUnitCount>>>>
        /\ LineRead(Chars("6 Apples, x/$1.00")) =>
              shoppingListItems = << >> /\ stderr = <<<<1, ErrUnitCount>>>>

\* six apples at 3 for $1.00 have been priced 200
SixApplesAtThreeForADollar ==
    /\ LinePriced(Chars("6 Apples, 3/$1.00"))
    /\ shoppingListItems[1].perUnitCount = 3
    /\ shoppingListItems[1].perUnitCountType = "CountType::Quantity"
    /\ shoppingListItems[1].count = DFromInt(6)
    /\ itemTotals = <<200>>

\* the line has been read and rejected with the message
LineRejectedWith(line, message) ==
    /\ LineRead(line)
    /\ shoppingListItems = << >>
    /\ stderr = <<<<1, message>>>>

\* the count a line of the form f begins with
CountOfForm(f) == IF f.count = "2" THEN DFromInt(2) ELSE Halves(3)

\* what the claim gives for the line of the form f, once it is read
CountTypeOfForm(f) ==
    IF f.token = ""
    THEN IF isWhole(CountOfForm(f))
         THEN /\ stderr = << >>
              /\ Len(shoppingListItems) = 1
              /\ shoppingListItems[1].countType = "CountType::Quantity"
              /\ shoppingListItems[1].count = CountOfForm(f)
              /\ shoppingListItems[1].name = Chars("Rice")
         ELSE LineRejectedWith(CountLine[f], ErrUnit)
    ELSE IF f.gap = " "
    THEN /\ stderr = << >>
         /\ Len(shoppingListItems) = 1
         /\ shoppingListItems[1].countType = CountTypeOfToken(f.token)
         /\ shoppingListItems[1].count = CountOfForm(f)
         /\ shoppingListItems[1].name = Chars("Rice")
    ELSE LineRejectedWith(CountLine[f], ErrSpace)

\* C19: after the count and one optional space the countType is that of the
\* first leading token that matches (lbs and lb Pound, oz Ounce, g Gram, kg
\* Kilogram); when none matches the countType is Quantity for a whole count
\* and the parse fails with "Expected a unit of measurement after the
\* quantity" for a count that is not whole; after a unit of weight one
\* optional "." is stripped and then one space is required, the parse
\* failing with "Expected space after the unit of measurement" without it.
CountTypeFromLeadingToken ==
    (Len(file) = 1 /\ lineNo > 1 /\ file[1] \in CountLines) =>
        /\ \A f \in CountForms : LineRead(CountLine[f]) => CountTypeOfForm(f)
        /\ LineRead(Chars("2 grapes, $1.00")) =>
              LineRejectedWith(Chars("2 grapes, $1.00"), ErrSpace)

\* "1.5kg. Rice, $1.00" has been parsed to a kilogram and a half of Rice
KilogramsOfRiceRead ==
    /\ LineRead(Chars("1.5kg. Rice, $1.00"))
    /\ stderr = << >>
    /\ Len(shoppingListItems) = 1
    /\ shoppingListItems[1].countType = "CountType::Kilogram"
    /\ shoppingListItems[1].count = Halves(3)
    /\ shoppingListItems[1].name = Chars("Rice")

(***************************************************************************)
(* The items of the parser priced.                                         *)
(***************************************************************************)
\* the total of an item without a conversion of its weight
UnconvertedTotal(item) ==
    IF item.perUnitCountType = "CountType::Quantity" /\ item.perUnitCount # 1
    THEN PriceTimes(item.priceCentsPerUnit,
                    DDiv(DFromInt(DTrunc(item.count)),
                         DFromInt(item.perUnitCount)))
    ELSE item.priceCentsPerUnit * DTrunc(item.count)

\* the item goes through the weight branch with a Unit for both of its
\* count types, or through no conversion of weight at all
PricedWithUnitsOrUnconverted(item, priced, total) ==
    IF IsQuantityPriced(item)
    THEN priced => IF DividesByZero(item) THEN total \in NaNAsInt64
                   ELSE total = UnconvertedTotal(item)
    ELSE /\ convertCountTypeToUnit(item.countType).has_value
         /\ convertCountTypeToUnit(item.perUnitCountType).has_value

\* C20: for every item a successful parseShoppingListItemStr returns,
\* getShoppingListItemTotalPrice never reaches its "Invalid unit" failure:
\* whenever the weight branch is taken both countType and perUnitCountType
\* have a corresponding Unit, and the weight is converted only when neither
\* of the two count types is Quantity.
ParsedItemsPricedWithoutInvalidUnit ==
    /\ pc # "terminated"
    /\ \A i \in 1..Len(shoppingListItems) :
          PricedWithUnitsOrUnconverted(shoppingListItems[i],
                                       i <= Len(itemTotals),
                                       IF i <= Len(itemTotals)
                                       THEN itemTotals[i] ELSE 0)

\* "32 oz Chicken Breasts, $4.99/lb" parsed and priced 998, the ounces
\* converted to two pounds
OuncesPricedPerPound ==
    /\ pc = "done"
    /\ file = <<Chars("32 oz Chicken Breasts, $4.99/lb")>>
    /\ Len(shoppingListItems) = 1
    /\ shoppingListItems[1].countType = "CountType::Ounce"
    /\ shoppingListItems[1].perUnitCountType = "CountType::Pound"
    /\ itemTotals = <<998>>

(***************************************************************************)
(* What the parser lets through.                                           *)
(***************************************************************************)
\* C21, as claimed: every item a successful parseShoppingListItemStr returns
\* has perUnitCount >= 1 and priceCentsPerUnit >= 0, so that
\* getShoppingListItemTotalPrice never divides by zero: no line such as
\* "Apples, 0/$1.00" or "2 lb. Beef, $5.99/0 lb" parses into an item with
\* perUnitCount = 0.
ParsedPerUnitCountPositive ==
    \A i \in 1..Len(shoppingListItems) :
        /\ shoppingListItems[i].perUnitCount >= 1
        /\ shoppingListItems[i].priceCentsPerUnit >= 0
        /\ ~DividesByZero(shoppingListItems[i])

\* "2 lb. Beef, $5.99/0 lb" parsed to two pounds at 599 per zero pounds and
\* priced by a division by zero
ZeroPoundsPriceDivided ==
    /\ pc = "done"
    /\ file = <<Chars("2 lb. Beef, $5.99/0 lb")>>
    /\ stderr = << >>
    /\ shoppingListItems =
          <<Item("Beef", 599, 2, "CountType::Pound", 0, "CountType::Pound")>>
    /\ DividesByZero(shoppingListItems[1])
    /\ itemTotals[1] \in NaNAsInt64

\* the line "3 <W>, $1.00" has parsed to three of W, the name whole
ThreeOfName(W) ==
    /\ stderr = << >>
    /\ shoppingListItems =
          <<Item(W, 100, 3, "CountType::Quantity", 1, "CountType::Quantity")>>

\* C22, as claimed: for every name W of ASCII letters and single inner
\* spaces, "3 " + W + ", $1.00" parses with count 3, countType Quantity and
\* the name W verbatim; names that begin with the letters of a unit token
\* ("grapes", "lbs of flour", "ozark ham") are neither rejected nor
\* shortened.
NamesKeptVerbatim ==
    (Len(file) = 1 /\ lineNo > 1 /\ file[1] \in NameLines) =>
        \A W \in UnitLetterNames \cup PlainNames :
            LineRead(NameLine[W]) => ThreeOfName(W)

\* the names that do not begin with the letters of a unit token are kept
\* as the claim has them
PlainNamesKeptVerbatim ==
    (Len(file) = 1 /\ lineNo > 1 /\ file[1] \in NameLines) =>
        \A W \in PlainNames : LineRead(NameLine[W]) => ThreeOfName(W)

\* "3 grapes, $1.00" has been rejected for the space after the unit g
GrapesRejected ==
    LineRejectedWith(NameLine["grapes"], ErrSpace)

\* "3 lbs of flour, $1.00" has parsed to three pounds of "of flour"
PoundsOfFlourShortened ==
    /\ LineRead(NameLine["lbs of flour"])
    /\ stderr = << >>
    /\ shoppingListItems =
          <<Item("of flour", 100, 3, "CountType::Pound", 1,
                 "CountType::Quantity")>>

\* the count of the parsed item was defaulted to 1 only on a text that
\* does not begin with a digit
DefaultedOnlyWithoutDigit(expectsQuantity, text) ==
    (expectsQuantity /\ detectDoubleFromFront(text).err # NoError) =>
        ~BeginsWithDigit(text)

DefaultedOnlyWithoutDigitAfterComma(tail, comma) ==
    comma.err = NoError =>
        DefaultedOnlyWithoutDigit(\/ tail.perUnitCountType =
                                        "CountType::Quantity"
                                  \/ tail.perUnitCount # 1,
                                  comma.sView)

DefaultedOnlyWithoutDigitAfterTail(tail) ==
    tail.err = NoError =>
        DefaultedOnlyWithoutDigitAfterComma(tail, TrailingComma(tail.sView))

\* C23, as claimed: whenever parseShoppingListItemStr succeeds with the
\* count defaulted to 1, the extraction of the leading number having failed
\* under expectsQuantity, the text before the comma did not begin with an
\* ASCII digit: no line whose text begins with digits that are not a
\* well-formed number ("1.2.3 Apples, $1.00", digits followed by a
\* multi-byte character) is accepted with count 1 and the digits left in
\* the name.
DefaultedCountNotAfterDigits ==
    (/\ Len(file) = 1 /\ lineNo > 1 /\ IsItemLine(file[1])
     /\ stderr = << >> /\ Len(shoppingListItems) = 1) =>
        DefaultedOnlyWithoutDigitAfterTail(ParsePriceTail(file[1]))

\* "1.2.3 Apples, $1.00" has parsed to one item named "1.2.3 Apples"
MalformedNumberLeftInName ==
    /\ LineRead(Chars("1.2.3 Apples, $1.00"))
    /\ stderr = << >>
    /\ shoppingListItems =
          <<Item("1.2.3 Apples", 100, 1, "CountType::Quantity", 1,
                 "CountType::Quantity")>>

\* the line of digits and an accented letter has parsed to one item, the
\* digits and the letter in its name
AccentAfterDigitsLeftInName ==
    /\ LineRead(AccentAfterDigitsLine)
    /\ stderr = << >>
    /\ Len(shoppingListItems) = 1
    /\ shoppingListItems[1].count = DFromInt(1)
    /\ shoppingListItems[1].countType = "CountType::Quantity"
    /\ shoppingListItems[1].name =
          Chars("12") \o <<"<C3>", "<A9>">> \o Chars(" Apples")

\* without expectsQuantity the malformed number is rejected:
\* "1.2.3 Apples, $1.00/lb" gives no item
MalformedNumberRejectedPerPound ==
    LineRead(Chars("1.2.3 Apples, $1.00/lb")) =>
        LineRejectedWith(Chars("1.2.3 Apples, $1.00/lb"), ErrNumberDecimals)

====
